---------------------------- MODULE Spec2Model ----------------------------
(***************************************************************************)
(* A model of pyconfig / pyconfix: the boolean-expression compiler and     *)
(* evaluator (tokenize, shunting_yard, evaluate_postfix_expr), and the     *)
(* option dependency engine in its two forms: the expression-based engine  *)
(* of src/pyconfix.py and the clause-list engine of                        *)
(* src/library/pyconfig.py, which also has force_enable_option.            *)
(*                                                                         *)
(* Python strings are modelled as sequences of one-character strings, so   *)
(* that scanning, splitting and the character tests are computed as the    *)
(* code computes them.  Python values are tagged records.                  *)
(***************************************************************************)
EXTENDS Integers, Sequences, FiniteSets, TLC

VARIABLES
    mode,           \* which program runs: "expr", "pyconfix" or "library"
    src,            \* expr: the expression text and the environment
    stage,          \* expr: "src", "tokens", "postfix", "value" or "error"
    tokens,         \* expr: output of tokenize
    postfix,        \* expr: output of shunting_yard
    result,         \* expr: outcome of evaluate_postfix
    options,        \* engine: the option arena (self.options, flattened)
    value,          \* engine: option.value of every option
    expanded,       \* engine: option.expanded of every option
    show_disabled,  \* engine: self.show_disabled
    search_mode,    \* engine: menu_loop's search_mode
    search_query,   \* engine: menu_loop's search_query
    current_row,    \* engine: menu_loop's current_row
    flat,           \* engine: flat_options of the current loop iteration
    pc,             \* engine: "draw" (before flatten_options) or "key"
    last,           \* engine: the handler that ran last and its outcome
    pre,            \* engine: option values when that handler started
    hid             \* engine: options hidden by a pass and not edited since

vars == << mode, src, stage, tokens, postfix, result, options, value,
           expanded, show_disabled, search_mode, search_query, current_row,
           flat, pc, last, pre, hid >>

exprVars == << src, stage, tokens, postfix, result >>
engineVars == << options, value, expanded, show_disabled, search_mode,
                search_query, current_row, flat, pc, last, pre, hid >>

----------------------------------------------------------------------------
(* Characters and Python's str predicates.                                 *)

Digits == {"0", "1", "2", "3", "4", "5", "6", "7", "8", "9"}

LowerSeq == << "a", "b", "c", "d", "e", "f", "g", "h", "i", "j", "k", "l", "m",
               "n", "o", "p", "q", "r", "s", "t", "u", "v", "w", "x", "y", "z" >>

UpperSeq == << "A", "B", "C", "D", "E", "F", "G", "H", "I", "J", "K", "L", "M",
               "N", "O", "P", "Q", "R", "S", "T", "U", "V", "W", "X", "Y", "Z" >>

DigitSeq == << "0", "1", "2", "3", "4", "5", "6", "7", "8", "9" >>

Range(f) == { f[i] : i \in DOMAIN f }

Letters == Range(LowerSeq) \cup Range(UpperSeq)

isspace(c) == c \in {" ", "\t", "\n"}

isdigit(c) == c \in Digits

isalpha(c) == c \in Letters

isalnum(c) == isalpha(c) \/ isdigit(c)

\* str.isdigit() and str.isalnum() of a whole string: false on the empty string.
str_isdigit(s) == Len(s) > 0 /\ \A i \in 1..Len(s) : isdigit(s[i])

str_isalnum(s) == Len(s) > 0 /\ \A i \in 1..Len(s) : isalnum(s[i])

IndexIn(seq, c) == CHOOSE i \in DOMAIN seq : seq[i] = c

\* str.upper(), character by character.
upper_char(c) == IF c \in Range(LowerSeq) THEN UpperSeq[IndexIn(LowerSeq, c)] ELSE c

upper(s) == [ i \in 1..Len(s) |-> upper_char(s[i]) ]

\* str.lower(), character by character.
lower_char(c) == IF c \in Range(UpperSeq) THEN LowerSeq[IndexIn(UpperSeq, c)] ELSE c

lower(s) == [ i \in 1..Len(s) |-> lower_char(s[i]) ]

\* needle in haystack, for two strings
is_substring(needle, haystack) ==
    \E i \in 0..(Len(haystack) - Len(needle)) :
        SubSeq(haystack, i + 1, i + Len(needle)) = needle

\* The code point order of the characters the model uses (ASCII).
AsciiSeq == << " ", "!", "&", "'", "(", ")", ",", "-", "." >> \o DigitSeq
            \o << "<", "=", ">" >> \o UpperSeq \o << "_" >> \o LowerSeq \o << "|" >>

ord(c) == IndexIn(AsciiSeq, c)

\* s < t for Python strings: lexicographic by code point.
RECURSIVE str_lt(_, _)
str_lt(s, t) ==
    IF Len(t) = 0 THEN FALSE
    ELSE IF Len(s) = 0 THEN TRUE
    ELSE IF s[1] = t[1] THEN str_lt(Tail(s), Tail(t))
    ELSE ord(s[1]) < ord(t[1])

\* s.replace('.', '', 1)
RECURSIVE remove_first_dot(_)
remove_first_dot(s) ==
    IF Len(s) = 0 THEN s
    ELSE IF s[1] = "." THEN Tail(s)
    ELSE << s[1] >> \o remove_first_dot(Tail(s))

str_contains(s, c) == \E i \in 1..Len(s) : s[i] = c

startswith_quote(s) == Len(s) > 0 /\ s[1] = "'"

endswith_quote(s) == Len(s) > 0 /\ s[Len(s)] = "'"

----------------------------------------------------------------------------
(* Python values: None, bool, int, float, str.  A number is n/d; a float   *)
(* literal with k decimals has d = 10^k.  bool is a subclass of int.       *)

PyNone == [t |-> "none", n |-> 0, d |-> 1, s |-> << >>]

PyBool(b) == [t |-> "bool", n |-> IF b THEN 1 ELSE 0, d |-> 1, s |-> << >>]

PyInt(i) == [t |-> "int", n |-> i, d |-> 1, s |-> << >>]

PyFloat(num, den) == [t |-> "float", n |-> num, d |-> den, s |-> << >>]

PyStr(str) == [t |-> "str", n |-> 0, d |-> 1, s |-> str]

PyTrue == PyBool(TRUE)

PyFalse == PyBool(FALSE)

is_number(v) == v.t \in {"bool", "int", "float"}

\* bool(v)
truthy(v) ==
    CASE v.t = "none" -> FALSE
      [] v.t = "str" -> Len(v.s) > 0
      [] OTHER -> v.n # 0

\* left == right by content alone, the type left out
py_eq_untyped(left, right) == left.n = right.n /\ left.s = right.s

\* left == right
py_eq(left, right) ==
    IF is_number(left) /\ is_number(right) THEN left.n * right.d = right.n * left.d
    ELSE IF left.t = "str" /\ right.t = "str" THEN left.s = right.s
    ELSE left.t = "none" /\ right.t = "none"

\* Whether left < right is defined (otherwise Python raises TypeError).
py_orderable(left, right) ==
    \/ is_number(left) /\ is_number(right)
    \/ left.t = "str" /\ right.t = "str"

\* left < right, for orderable operands
py_lt(left, right) ==
    IF is_number(left) THEN left.n * right.d < right.n * left.d
    ELSE str_lt(left.s, right.s)

\* The outcome of a call: a returned value, or the exception raised.
Return(v) == [err |-> "", val |-> v]

Raise(e) == [err |-> e, val |-> PyNone]

----------------------------------------------------------------------------
(* tokenize                                                                *)

Str1(c) == << c >>

OperatorChars == {"&", "|", "!", "=", ">", "<"}

TwoCharOperators == { <<"&", "&">>, <<"|", "|">>, <<"=", "=">>, <<"!", "=">>,
                      <<">", "=">>, <<"<", "=">> }

\* The inner while loop of a numeric literal: the index after its last character.
RECURSIVE scan_number(_, _, _)
scan_number(expression, i, dot_count) ==
    IF i <= Len(expression)
       /\ (isdigit(expression[i]) \/ (expression[i] = "." /\ dot_count = 0))
    THEN scan_number(expression, i + 1,
                     IF expression[i] = "." THEN dot_count + 1 ELSE dot_count)
    ELSE i

RECURSIVE scan_identifier(_, _)
scan_identifier(expression, i) ==
    IF i <= Len(expression) /\ (isalnum(expression[i]) \/ expression[i] = "_")
    THEN scan_identifier(expression, i + 1)
    ELSE i

\* The inner while loop of a quoted string: the index of the closing quote,
\* or Len + 1 when there is none.
RECURSIVE scan_quote(_, _)
scan_quote(expression, i) ==
    IF i <= Len(expression) /\ expression[i] # "'"
    THEN scan_quote(expression, i + 1)
    ELSE i

Min(a, b) == IF a < b THEN a ELSE b

\* expression[start:stop] with 1-based start and exclusive 1-based stop.
Slice(s, start, stop) == SubSeq(s, start, Min(stop - 1, Len(s)))

RECURSIVE tokenize_from(_, _, _)
tokenize_from(expression, i, toks) ==
    LET n == Len(expression) IN
    IF i > n THEN Return(toks)
    ELSE
    LET char == expression[i] IN
    IF isspace(char) THEN tokenize_from(expression, i + 1, toks)
    ELSE IF isdigit(char) \/ (char = "." /\ i + 1 <= n /\ isdigit(expression[i + 1]))
    THEN LET j == scan_number(expression, i + 1, IF char = "." THEN 1 ELSE 0)
         IN  tokenize_from(expression, j, Append(toks, Slice(expression, i, j)))
    ELSE IF isalpha(char) \/ char = "_"
    THEN LET j == scan_identifier(expression, i)
         IN  tokenize_from(expression, j, Append(toks, Slice(expression, i, j)))
    ELSE IF char = "'"
    THEN LET j == scan_quote(expression, i + 1) + 1
         IN  tokenize_from(expression, j, Append(toks, Slice(expression, i, j)))
    ELSE IF char \in OperatorChars
    THEN IF i + 1 <= n /\ Slice(expression, i, i + 2) \in TwoCharOperators
         THEN tokenize_from(expression, i + 2, Append(toks, Slice(expression, i, i + 2)))
         ELSE tokenize_from(expression, i + 1, Append(toks, Str1(char)))
    ELSE IF char \in {"(", ")"}
    THEN tokenize_from(expression, i + 1, Append(toks, Str1(char)))
    ELSE [err |-> "Unexpected character", val |-> << >>]

\* tokenize with the unexpected-character error swallowed
tokenize_lenient(expression) == [err |-> "", val |-> tokenize_from(expression, 1, << >>).val]

tokenize(expression) == tokenize_from(expression, 1, << >>)

----------------------------------------------------------------------------
(* shunting_yard                                                           *)

tNot == <<"!">>
tAnd == <<"&", "&">>
tOr == <<"|", "|">>
tEq == <<"=", "=">>
tNe == <<"!", "=">>
tGt == <<">">>
tLt == <<"<">>
tGe == <<">", "=">>
tLe == <<"<", "=">>
tOpen == <<"(">>
tClose == <<")">>

ComparisonTokens == {tEq, tNe, tGt, tLt, tGe, tLe}

PrecedenceTokens == {tNot, tAnd, tOr} \cup ComparisonTokens

PrecNot == 4
PrecCompare == 3
PrecAnd == 2
PrecOr == 1

\* precedence with && and || exchanged
precedence_swapped(tok) ==
    CASE tok = tNot -> PrecNot
      [] tok \in ComparisonTokens -> PrecCompare
      [] tok = tAnd -> PrecOr
      [] tok = tOr -> PrecAnd

precedence(tok) ==
    CASE tok = tNot -> PrecNot
      [] tok \in ComparisonTokens -> PrecCompare
      [] tok = tAnd -> PrecAnd
      [] tok = tOr -> PrecOr

right_associative == {tNot}

\* The test of line 87: numeric, identifier or quoted string.
is_operand_token(tok) ==
    \/ str_isdigit(remove_first_dot(tok))
    \/ str_isalnum(tok)
    \/ (startswith_quote(tok) /\ endswith_quote(tok))
    \/ str_contains(tok, "_")

Last(s) == s[Len(s)]

Front(s) == SubSeq(s, 1, Len(s) - 1)

\* while operators and operators[-1] != '(' and precedence[operators[-1]] > or >= ...
RECURSIVE pop_operators(_, _, _)
pop_operators(tok, output, operators) ==
    IF Len(operators) > 0 /\ Last(operators) # tOpen
       /\ (IF tok \in right_associative
           THEN precedence(Last(operators)) > precedence(tok)
           ELSE precedence(Last(operators)) >= precedence(tok))
    THEN pop_operators(tok, Append(output, Last(operators)), Front(operators))
    ELSE [output |-> output, operators |-> operators]

\* while operators and operators[-1] != '(': output.append(operators.pop())
RECURSIVE pop_to_open(_, _)
pop_to_open(output, operators) ==
    IF Len(operators) > 0 /\ Last(operators) # tOpen
    THEN pop_to_open(Append(output, Last(operators)), Front(operators))
    ELSE [output |-> output, operators |-> operators]

\* The final while loop without the test for a parenthesis.
RECURSIVE drain_operators_lenient(_, _)
drain_operators_lenient(output, operators) ==
    IF Len(operators) = 0 THEN Return(output)
    ELSE drain_operators_lenient(Append(output, Last(operators)), Front(operators))

\* The final while loop: pop what is left, a parenthesis being an error.
RECURSIVE drain_operators(_, _)
drain_operators(output, operators) ==
    IF Len(operators) = 0 THEN Return(output)
    ELSE IF Last(operators) \in {tOpen, tClose}
    THEN [err |-> "Mismatched parentheses", val |-> << >>]
    ELSE drain_operators(Append(output, Last(operators)), Front(operators))

RECURSIVE shunting_yard_from(_, _, _, _)
shunting_yard_from(toks, k, output, operators) ==
    IF k > Len(toks) THEN drain_operators(output, operators)
    ELSE
    LET token == toks[k] IN
    IF is_operand_token(token)
    THEN shunting_yard_from(toks, k + 1, Append(output, token), operators)
    ELSE IF token \in PrecedenceTokens
    THEN LET p == pop_operators(token, output, operators)
         IN  shunting_yard_from(toks, k + 1, p.output, Append(p.operators, token))
    ELSE IF token = tOpen
    THEN shunting_yard_from(toks, k + 1, output, Append(operators, token))
    ELSE IF token = tClose
    THEN LET p == pop_to_open(output, operators)
         IN  IF Len(p.operators) > 0 /\ Last(p.operators) = tOpen
             THEN shunting_yard_from(toks, k + 1, p.output, Front(p.operators))
             ELSE [err |-> "Mismatched parentheses", val |-> << >>]
    ELSE shunting_yard_from(toks, k + 1, output, operators)

shunting_yard(toks) == shunting_yard_from(toks, 1, << >>, << >>)

----------------------------------------------------------------------------
(* evaluate_postfix_expr and BooleanExpressionParser.eval_operator         *)

digit_value(c) == IndexIn(DigitSeq, c) - 1

\* int(token) for a string of decimal digits
RECURSIVE parse_int(_)
parse_int(s) ==
    IF Len(s) = 0 THEN 0
    ELSE 10 * parse_int(Front(s)) + digit_value(Last(s))

RECURSIVE pow10(_)
pow10(k) == IF k = 0 THEN 1 ELSE 10 * pow10(k - 1)

\* float(token) that reads the digits and ignores where the '.' is
parse_float_whole(s) == PyFloat(parse_int(remove_first_dot(s)), 1)

\* float(token) for digits with one '.': the digits over 10^(decimals)
parse_float(s) ==
    LET dot == CHOOSE i \in 1..Len(s) : s[i] = "."
    IN  PyFloat(parse_int(remove_first_dot(s)), pow10(Len(s) - dot))

\* A comparison that raises TypeError on operands Python cannot order.
compare(left, right, holds) ==
    IF py_orderable(left, right) THEN Return(PyBool(holds)) ELSE Raise("TypeError")

\* eval_operator with the operands of the ordering comparisons exchanged
eval_operator_swapped(op, right, left) ==
    CASE op = tNot -> Return(PyBool(~truthy(right)))
      [] op = tAnd -> Return(PyBool(truthy(left) /\ truthy(right)))
      [] op = tOr -> Return(PyBool(truthy(left) \/ truthy(right)))
      [] op = tEq -> Return(PyBool(py_eq(left, right)))
      [] op = tNe -> Return(PyBool(~py_eq(left, right)))
      [] op = tGt -> compare(left, right, py_lt(left, right))
      [] op = tLt -> compare(left, right, py_lt(right, left))
      [] op = tGe -> compare(left, right, ~py_lt(right, left))
      [] op = tLe -> compare(left, right, ~py_lt(left, right))
      [] OTHER -> Raise("Unknown operator")

eval_operator(op, right, left) ==
    CASE op = tNot -> Return(PyBool(~truthy(right)))
      [] op = tAnd -> Return(PyBool(truthy(left) /\ truthy(right)))
      [] op = tOr -> Return(PyBool(truthy(left) \/ truthy(right)))
      [] op = tEq -> Return(PyBool(py_eq(left, right)))
      [] op = tNe -> Return(PyBool(~py_eq(left, right)))
      [] op = tGt -> compare(left, right, py_lt(right, left))
      [] op = tLt -> compare(left, right, py_lt(left, right))
      [] op = tGe -> compare(left, right, ~py_lt(left, right))
      [] op = tLe -> compare(left, right, ~py_lt(right, left))
      [] OTHER -> Raise("Unknown operator")

\* The for loop of evaluate_postfix_expr from token k on, with the operand stack.
\* operand_func is the getter, as a function from tokens to values.
RECURSIVE evaluate_from(_, _, _, _)
evaluate_from(toks, k, stack, operand_func) ==
    IF k > Len(toks)
    THEN IF Len(stack) # 1
         THEN Raise("Invalid expression: extra items remain on the stack")
         ELSE Return(stack[1])
    ELSE
    LET token == toks[k] IN
    IF str_isdigit(remove_first_dot(token))
    THEN evaluate_from(toks, k + 1,
             Append(stack, IF str_contains(token, ".")
                           THEN parse_float(token)
                           ELSE PyInt(parse_int(token))),
             operand_func)
    ELSE IF str_isalnum(token) \/ (startswith_quote(token) /\ endswith_quote(token))
            \/ str_contains(token, "_")
    THEN IF startswith_quote(token) /\ endswith_quote(token)
         THEN evaluate_from(toks, k + 1,
                  Append(stack, PyStr(SubSeq(token, 2, Len(token) - 1))), operand_func)
         ELSE evaluate_from(toks, k + 1, Append(stack, operand_func[token]), operand_func)
    ELSE IF token = tNot
    THEN IF Len(stack) = 0
         THEN Raise("Missing operand for '!'")
         ELSE LET r == eval_operator(token, Last(stack), PyNone)
              IN  IF r.err # "" THEN r
                  ELSE evaluate_from(toks, k + 1, Append(Front(stack), r.val), operand_func)
    ELSE IF Len(stack) < 2
         THEN Raise("Missing operands")
         ELSE LET right == Last(stack)
                  left == Last(Front(stack))
                  r == eval_operator(token, right, left)
              IN  IF r.err # "" THEN r
                  ELSE evaluate_from(toks, k + 1,
                           Append(Front(Front(stack)), r.val), operand_func)

\* evaluate_postfix_expr with every exception swallowed
evaluate_ignoring_errors(toks, operand_func) ==
    Return(evaluate_from(toks, 1, << >>, operand_func).val)

evaluate_postfix_expr(toks, operand_func) == evaluate_from(toks, 1, << >>, operand_func)

----------------------------------------------------------------------------
(* The expression pipeline as a program: the harness of src/test.py        *)
(* (run_boolean_expression_test_case) tokenizes an expression, compiles it *)
(* and evaluates it against an environment.                                *)

MaxInt == 2

nA == <<"A">>
nB == <<"B">>

\* str(i) for a natural number
RECURSIVE int_to_str(_)
int_to_str(i) ==
    IF i < 10 THEN << DigitSeq[i + 1] >>
    ELSE int_to_str(i \div 10) \o << DigitSeq[(i % 10) + 1] >>

\* Expressions as trees: <<"id", name>>, <<"int", i>>, <<"str", s>>,
\* <<"not", e>>, <<"bin", op, left, right>>.
Id(name) == <<"id", name>>
IntLit(i) == <<"int", i>>
StrLit(str) == <<"str", str>>
Not(e) == <<"not", e>>
Bin(op, l, r) == <<"bin", op, l, r>>

BinaryTokens == {tAnd, tOr} \cup ComparisonTokens

Atoms == {Id(nA), Id(nB), IntLit(1), StrLit(<<"x">>)}

SimpleExprs == Atoms \cup { Not(a) : a \in Atoms }
               \cup { Bin(op, a, b) : op \in BinaryTokens, a \in Atoms, b \in Atoms }

IdExprs == {Id(nA), Id(nB), Not(Id(nA))}
           \cup { Bin(op, Id(nA), Id(nB)) : op \in BinaryTokens }

NestedExprs == { Not(e) : e \in IdExprs }
               \cup { Bin(op, l, r) : op \in BinaryTokens, l \in IdExprs, r \in IdExprs }

Exprs == SimpleExprs \cup NestedExprs

EnvValues == {PyNone, PyTrue, PyFalse} \cup { PyInt(i) : i \in 0..MaxInt }
             \cup {PyStr(<<"x">>), PyStr(<<"y">>)}

Envs == [ {nA, nB} -> EnvValues ]

\* The binding strength of a tree's top operator in the reference grammar.
RefPrec(e) ==
    CASE e[1] = "not" -> 4
      [] e[1] = "bin" /\ e[2] \in ComparisonTokens -> 3
      [] e[1] = "bin" /\ e[2] = tAnd -> 2
      [] e[1] = "bin" /\ e[2] = tOr -> 1
      [] OTHER -> 5

Parens(text) == <<"(">> \o text \o <<")">>

\* The text of a tree, with the parentheses the reference grammar needs:
\* ! binds tightest, then the comparisons, then &&, then ||; binary
\* operators associate to the left.
RECURSIVE Render(_)
Render(e) ==
    CASE e[1] = "id" -> e[2]
      [] e[1] = "int" -> int_to_str(e[2])
      [] e[1] = "str" -> <<"'">> \o e[2] \o <<"'">>
      [] e[1] = "not" ->
            <<"!">> \o (IF RefPrec(e[2]) < 4 THEN Parens(Render(e[2])) ELSE Render(e[2]))
      [] e[1] = "bin" ->
            (IF RefPrec(e[3]) < RefPrec(e) THEN Parens(Render(e[3])) ELSE Render(e[3]))
            \o <<" ">> \o e[2] \o <<" ">> \o
            (IF RefPrec(e[4]) <= RefPrec(e) THEN Parens(Render(e[4])) ELSE Render(e[4]))

\* The reference meaning of a binary operator on a left and a right value.
RefBinary(op, l, r) ==
    CASE op = tAnd -> Return(PyBool(truthy(l) /\ truthy(r)))
      [] op = tOr -> Return(PyBool(truthy(l) \/ truthy(r)))
      [] op = tEq -> Return(PyBool(py_eq(l, r)))
      [] op = tNe -> Return(PyBool(~py_eq(l, r)))
      [] ~py_orderable(l, r) -> Raise("TypeError")
      [] op = tLt -> Return(PyBool(py_lt(l, r)))
      [] op = tGt -> Return(PyBool(py_lt(r, l)))
      [] op = tLe -> Return(PyBool(py_lt(l, r) \/ py_eq(l, r)))
      [] op = tGe -> Return(PyBool(py_lt(r, l) \/ py_eq(l, r)))

\* The reference value of a tree under an environment.
RECURSIVE RefEval(_, _)
RefEval(e, env) ==
    CASE e[1] = "id" -> Return(env[e[2]])
      [] e[1] = "int" -> Return(PyInt(e[2]))
      [] e[1] = "str" -> Return(PyStr(e[2]))
      [] e[1] = "not" ->
            LET r == RefEval(e[2], env)
            IN  IF r.err # "" THEN r ELSE Return(PyBool(~truthy(r.val)))
      [] e[1] = "bin" ->
            LET l == RefEval(e[3], env)
                r == RefEval(e[4], env)
            IN  IF l.err # "" THEN l
                ELSE IF r.err # "" THEN r
                ELSE RefBinary(e[2], l.val, r.val)

\* The postfix form of a tree: the operands in their order, every operator
\* after the operands it is applied to.
RECURSIVE RefPostfix(_)
RefPostfix(e) ==
    CASE e[1] = "id" -> << e[2] >>
      [] e[1] = "int" -> << int_to_str(e[2]) >>
      [] e[1] = "str" -> << <<"'">> \o e[2] \o <<"'">> >>
      [] e[1] = "not" -> RefPostfix(e[2]) \o << tNot >>
      [] e[1] = "bin" -> RefPostfix(e[3]) \o RefPostfix(e[4]) \o << e[2] >>

\* The getter of the harness: env.get(key.upper()).
env_getter(env, key) == IF upper(key) \in DOMAIN env THEN env[upper(key)] ELSE PyNone

NoResult == Raise("not run")

InitExpr ==
    /\ mode = "expr"
    /\ \E e \in Exprs, env \in Envs :
          src = [text |-> Render(e), env |-> env, expect |-> RefEval(e, env),
                 compiled |-> RefPostfix(e)]
    /\ stage = "src"
    /\ tokens = << >>
    /\ postfix = << >>
    /\ result = NoResult
    /\ options = << >>
    /\ value = << >>
    /\ expanded = << >>
    /\ show_disabled = FALSE
    /\ search_mode = FALSE
    /\ search_query = << >>
    /\ current_row = 0
    /\ flat = << >>
    /\ pc = "none"
    /\ last = [op |-> "none", sel |-> 0, err |-> ""]
    /\ pre = << >>
    /\ hid = {}

\* tokens = tokenize(tc["expr"])
Tokenize ==
    /\ mode = "expr" /\ stage = "src"
    /\ LET r == tokenize(src.text)
       IN  IF r.err # ""
           THEN /\ stage' = "error"
                /\ result' = Raise(r.err)
                /\ tokens' = tokens
           ELSE /\ stage' = "tokens"
                /\ tokens' = r.val
                /\ result' = result
    /\ UNCHANGED << mode, src, postfix >>
    /\ UNCHANGED engineVars

\* postfix = shunting_yard(tokens)
ShuntingYard ==
    /\ mode = "expr" /\ stage = "tokens"
    /\ LET r == shunting_yard(tokens)
       IN  IF r.err # ""
           THEN /\ stage' = "error"
                /\ result' = Raise(r.err)
                /\ postfix' = postfix
           ELSE /\ stage' = "postfix"
                /\ postfix' = r.val
                /\ result' = result
    /\ UNCHANGED << mode, src, tokens >>
    /\ UNCHANGED engineVars

\* parser.evaluate_postfix(postfix)
Evaluate ==
    /\ mode = "expr" /\ stage = "postfix"
    /\ result' = evaluate_postfix_expr(postfix,
                     [ tok \in Range(postfix) |-> env_getter(src.env, tok) ])
    /\ stage' = "value"
    /\ UNCHANGED << mode, src, tokens, postfix >>
    /\ UNCHANGED engineVars

NextExpr == Tokenize \/ ShuntingYard \/ Evaluate

SpecExpr == InitExpr /\ [][NextExpr]_vars

----------------------------------------------------------------------------
(* Claims about the expression pipeline (checked under SpecExpr).          *)

C11_PostfixFollowsPrecedence ==
    stage \in {"postfix", "value"} => postfix = src.compiled

\* C11 witness: 'A || A && B' compiled to A A B && ||, and a parenthesised
\* 'A && (A || B)' shape is among the inputs as well.
C11_Witness ==
    /\ stage = "postfix"
    /\ src.text = <<"A", " ", "|", "|", " ", "A", " ", "&", "&", " ", "B">>
    /\ postfix = << nA, nA, nB, tAnd, tOr >>

----------------------------------------------------------------------------
(* Python string helpers used by the dependency engine.                    *)

\* str(v) of an option value
py_str(v) ==
    CASE v.t = "none" -> <<"N", "o", "n", "e">>
      [] v.t = "bool" -> IF v.n = 1 THEN <<"T", "r", "u", "e">> ELSE <<"F", "a", "l", "s", "e">>
      [] v.t = "str" -> v.s
      [] OTHER -> int_to_str(v.n)

\* s.strip()
RECURSIVE lstrip(_)
lstrip(s) == IF Len(s) > 0 /\ isspace(s[1]) THEN lstrip(Tail(s)) ELSE s

RECURSIVE rstrip(_)
rstrip(s) == IF Len(s) > 0 /\ isspace(Last(s)) THEN rstrip(Front(s)) ELSE s

strip(s) == rstrip(lstrip(s))

\* s.split(sep) for a separator of one or two characters
RECURSIVE split_from(_, _, _, _)
split_from(s, sep, i, cur) ==
    IF i > Len(s) THEN << cur >>
    ELSE IF i + Len(sep) - 1 <= Len(s) /\ SubSeq(s, i, i + Len(sep) - 1) = sep
    THEN << cur >> \o split_from(s, sep, i + Len(sep), << >>)
    ELSE split_from(s, sep, i + 1, Append(cur, s[i]))

split(s, sep) == split_from(s, sep, 1, << >>)

\* [d.strip() for d in s.split(sep) if d.strip()]
split_strip_nonempty(s, sep) ==
    LET parts == split(s, sep)
        stripped == [ k \in DOMAIN parts |-> strip(parts[k]) ]
    IN  SelectSeq(stripped, LAMBDA d : Len(d) > 0)

\* [v.strip() for v in s.split(',')]
split_strip(s, sep) ==
    LET parts == split(s, sep) IN [ k \in DOMAIN parts |-> strip(parts[k]) ]

InSeq(x, seq) == \E k \in DOMAIN seq : seq[k] = x

\* re.match(r'^([^=]+)=([^=]+)$', s): exactly one '=', with text on both sides
EqualsPositions(s) == { k \in 1..Len(s) : s[k] = "=" }

matches_key_value(s) ==
    /\ Cardinality(EqualsPositions(s)) = 1
    /\ \A k \in EqualsPositions(s) : 1 < k /\ k < Len(s)

match_key(s) == SubSeq(s, 1, (CHOOSE k \in EqualsPositions(s) : TRUE) - 1)

match_value(s) == SubSeq(s, (CHOOSE k \in EqualsPositions(s) : TRUE) + 1, Len(s))

----------------------------------------------------------------------------
(* The option tree of src/pyconfix.py.  The tree is kept as an arena: the  *)
(* options in depth-first order, each with the index of the group that     *)
(* holds it (0 at the top level).  option.value lives in the variable      *)
(* value, option.expanded in expanded.                                     *)

MaxRecursion == 8

\* ConfigOption.__init__: the fields fixed at construction.
ConfigOption(name, option_type, default, external, dependencies, choices, parent) ==
    [ name |-> name,
      option_type |-> option_type,
      default |-> default,
      external |-> external,
      dependencies |-> dependencies,
      choices |-> choices,
      parent |-> parent,
      postfix_dependencies |->
          IF Len(dependencies) > 0
          THEN shunting_yard(tokenize(dependencies).val).val
          ELSE << >> ]

AndSep == <<" ", "&", "&", " ">>

\* dependencies + (" && " if dependencies else "") + group_dependencies
merge_dependencies(dependencies, group_dependencies) ==
    IF Len(group_dependencies) > 0
    THEN dependencies \o (IF Len(dependencies) > 0 THEN AndSep ELSE << >>)
         \o group_dependencies
    ELSE dependencies

\* Line 353: the enclosing call's group_dependencies appended once more to the
\* raw string of a group's direct children (the postfix is not recompiled).
append_group_dependencies(dependencies, group_dependencies) ==
    dependencies
    \o (IF Len(dependencies) > 0 /\ Len(group_dependencies) > 0 THEN AndSep ELSE << >>)
    \o group_dependencies

\* parse_options: the arena entries of a list of option definitions whose
\* options get the indices base + 1, base + 2, ...
RECURSIVE parse_options(_, _, _, _)
parse_options(options_data, parent, group_dependencies, base) ==
    IF Len(options_data) = 0 THEN << >>
    ELSE
    LET option_data == Head(options_data)
        me == base + 1
        dependencies == merge_dependencies(option_data.dependencies, group_dependencies)
        option == ConfigOption(option_data.name, option_data.type, option_data.default,
                               FALSE, dependencies, option_data.choices, parent)
        nested == IF option_data.type = "group"
                  THEN parse_options(option_data.options, me, dependencies, me)
                  ELSE << >>
        children == [ k \in DOMAIN nested |->
                        IF nested[k].parent = me
                        THEN [ nested[k] EXCEPT !.dependencies =
                                 append_group_dependencies(@, group_dependencies) ]
                        ELSE nested[k] ]
    IN  << option >> \o children
        \o parse_options(Tail(options_data), parent, group_dependencies, me + Len(children))

\* option.choices.index(label), 0-based
choices_index(opt, label) == (CHOOSE k \in DOMAIN opt.choices : opt.choices[k] = label.s) - 1

\* option.default for every type, the index conversion left out.
default_label(opt) == opt.default

\* option.default, or its index in choices for a multiple_choice option
default_value(opt) ==
    IF opt.option_type = "multiple_choice"
    THEN PyInt(choices_index(opt, opt.default))
    ELSE opt.default

\* The members of a list of options: the top level (0) or a group's options.
RECURSIVE members_from(_, _)
members_from(parent, k) ==
    IF k > Len(options) THEN << >>
    ELSE (IF options[k].parent = parent THEN << k >> ELSE << >>)
         \o members_from(parent, k + 1)

Children(parent) == members_from(parent, 1)

TopLevel == Children(0)

Opts == DOMAIN options

----------------------------------------------------------------------------
(* pyconfix.is_option_available and pyconfix.option_meets_dependency       *)

\* getter_function_impl: (found, value) of the first option named key
RECURSIVE getter_function_impl(_, _, _)
getter_function_impl(key, options_list, vals) ==
    IF Len(options_list) = 0 THEN [found |-> FALSE, value |-> PyNone]
    ELSE
    LET i == Head(options_list)
        opt == options[i]
        rest == getter_function_impl(key, Tail(options_list), vals)
    IN  IF opt.option_type = "group"
        THEN LET inner == getter_function_impl(key, Children(i), vals)
             IN  IF inner.found THEN inner ELSE rest
        ELSE IF upper(opt.name) = upper(key)
        THEN IF opt.option_type = "multiple_choice"
             THEN [found |-> TRUE,
                   value |-> IF vals[i] # PyNone
                             THEN PyStr(opt.choices[vals[i].n + 1])
                             ELSE PyNone]
             ELSE [found |-> TRUE, value |-> vals[i]]
        ELSE rest

getter_function(key, vals) == getter_function_impl(key, TopLevel, vals).value

\* is_option_available without the dependency expression
is_option_available_always(i, vals) == Return(PyTrue)

\* is_option_available: the value of the dependency expression (or True),
\* or the exception evaluation raised
is_option_available(i, vals) ==
    IF Len(options[i].dependencies) > 0
    THEN evaluate_postfix_expr(options[i].postfix_dependencies,
             [ tok \in Range(options[i].postfix_dependencies) |-> getter_function(tok, vals) ])
    ELSE Return(PyTrue)

\* OptionManager.find_option (src/pyconfig.py): the first option, groups
\* included, whose name is exactly name, depth first.  An empty list stands
\* for self.options ("options or self.options").
RECURSIVE OptionManager_find_option(_, _, _)
RECURSIVE OptionManager_find_in(_, _, _)

OptionManager_find_nested(name, rest_list, depth, found) ==
    IF found.err # "" \/ found.index # 0 THEN found
    ELSE OptionManager_find_in(name, rest_list, depth)

OptionManager_find_in(name, options_list, depth) ==
    IF Len(options_list) = 0 THEN [index |-> 0, err |-> ""]
    ELSE IF options[Head(options_list)].name = name
    THEN [index |-> Head(options_list), err |-> ""]
    ELSE IF options[Head(options_list)].option_type = "group"
    THEN OptionManager_find_nested(name, Tail(options_list), depth,
             OptionManager_find_option(name, Children(Head(options_list)), depth + 1))
    ELSE OptionManager_find_in(name, Tail(options_list), depth)

OptionManager_find_option(name, options_list, depth) ==
    IF depth > MaxRecursion THEN [index |-> 0, err |-> "RecursionError"]
    ELSE OptionManager_find_in(name,
             IF Len(options_list) = 0 THEN TopLevel ELSE options_list, depth)

\* The getter of OptionManager.is_option_available:
\* self.find_option(key).value if self.find_option(key) else None
OptionManager_getter(found, vals) ==
    IF found.index = 0 THEN PyNone ELSE vals[found.index]

\* The tokens evaluate_postfix_expr hands to the getter.
resolved_tokens(toks) ==
    { tok \in Range(toks) :
        /\ ~str_isdigit(remove_first_dot(tok))
        /\ ~(startswith_quote(tok) /\ endswith_quote(tok))
        /\ (str_isalnum(tok) \/ str_contains(tok, "_")) }

\* OptionManager.is_option_available
OptionManager_is_option_available(i, vals) ==
    IF Len(options[i].dependencies) = 0 THEN Return(PyTrue)
    ELSE IF \E tok \in resolved_tokens(options[i].postfix_dependencies) :
                OptionManager_find_option(tok, << >>, 0).err # ""
    THEN Raise("RecursionError")
    ELSE evaluate_postfix_expr(options[i].postfix_dependencies,
             [ tok \in Range(options[i].postfix_dependencies) |->
                 OptionManager_getter(OptionManager_find_option(tok, << >>, 0), vals) ])

option_meets_dependency(i, dependency_string, vals) ==
    LET option == options[i] IN
    IF option.option_type = "group" THEN Return(PyFalse)
    ELSE IF Len(dependency_string) > 0 /\ dependency_string[1] = "!"
    THEN Return(PyBool(upper(option.name) = upper(Tail(dependency_string))
                       /\ ~truthy(vals[i])))
    ELSE IF matches_key_value(dependency_string)
    THEN LET key == match_key(dependency_string)
             values == split_strip(match_value(dependency_string), <<",">>)
         IN  IF upper(option.name) = upper(key)
             THEN IF option.option_type = "multiple_choice"
                  THEN IF vals[i].t # "int" THEN Raise("TypeError")
                       ELSE Return(PyBool(InSeq(option.choices[vals[i].n + 1], values)))
                  ELSE IF option.option_type \in {"int", "string"}
                  THEN Return(PyBool(InSeq(py_str(vals[i]), values)))
                  ELSE Return(PyFalse)
             ELSE Return(PyFalse)
    ELSE Return(PyBool(upper(option.name) = upper(dependency_string) /\ truthy(vals[i])))

----------------------------------------------------------------------------
(* pyconfix.flatten_options, search_options, reset_dependent_options and   *)
(* handle_enter.  Each returns the option values it leaves behind and the  *)
(* exception it raised, if any ("" for none).  A call whose result the     *)
(* code uses more than once is passed on as an argument.                   *)

Done(vals) == [vals |-> vals, err |-> ""]

Failed(vals, e) == [vals |-> vals, err |-> e]

Rows(vals, rows, e) == [vals |-> vals, flat |-> rows, err |-> e]

\* Lines 440-447: what flatten_options does to the value of one option.
apply_visibility_to(i, vals, available) ==
    IF ~available
    THEN IF options[i].option_type # "group" THEN [vals EXCEPT ![i] = PyNone] ELSE vals
    ELSE IF vals[i] = PyNone
         THEN [vals EXCEPT ![i] = default_value(options[i])]
         ELSE vals

RECURSIVE flatten_options(_, _, _, _)
RECURSIVE flatten_option(_, _, _, _, _, _)

\* Lines 448-450: the row of option i, the rows of its group (sub) and the
\* rows of the options after it (rest).
flatten_append(i, sub, rest) ==
    Rows(rest.vals, << i >> \o sub.flat \o rest.flat, rest.err)

flatten_rest(i, rest_list, exp, shown, sub) ==
    IF sub.err # "" THEN sub
    ELSE flatten_append(i, sub, flatten_options(rest_list, sub.vals, exp, shown))

\* The body of the for loop for option i, a being is_option_available(i).
flatten_option(i, rest_list, vals, exp, shown, a) ==
    IF a.err # "" THEN Rows(vals, << >>, a.err)
    ELSE IF ~truthy(a.val) /\ ~shown
    THEN flatten_options(rest_list, apply_visibility_to(i, vals, FALSE), exp, shown)
    ELSE flatten_rest(i, rest_list, exp, shown,
             IF options[i].option_type = "group" /\ exp[i]
             THEN flatten_options(Children(i), apply_visibility_to(i, vals, truthy(a.val)),
                                  exp, shown)
             ELSE Rows(apply_visibility_to(i, vals, truthy(a.val)), << >>, ""))

flatten_options(options_list, vals, exp, shown) ==
    IF Len(options_list) = 0 THEN Rows(vals, << >>, "")
    ELSE flatten_option(Head(options_list), Tail(options_list), vals, exp, shown,
                        is_option_available(Head(options_list), vals))

Found(rows, exp, e) == [flat |-> rows, exp |-> exp, err |-> e]

RECURSIVE search_options(_, _, _, _, _)
RECURSIVE search_option(_, _, _, _, _, _, _)

search_prepend(rows, rest) == Found(rows \o rest.flat, rest.exp, rest.err)

\* Lines 459-462: a group is listed, and expanded, when the search finds
\* something in it.
search_group(i, rest_list, query, vals, shown, nested) ==
    IF nested.err # "" THEN nested
    ELSE IF Len(nested.flat) > 0
    THEN search_prepend(<< i >> \o nested.flat,
             search_options(rest_list, query, vals, [nested.exp EXCEPT ![i] = TRUE], shown))
    ELSE search_options(rest_list, query, vals, nested.exp, shown)

\* The body of the for loop for option i, a being
\* self.show_disabled or self.is_option_available(option).
search_option(i, rest_list, query, vals, exp, shown, a) ==
    IF a.err # "" THEN Found(<< >>, exp, a.err)
    ELSE IF ~truthy(a.val) THEN search_options(rest_list, query, vals, exp, shown)
    ELSE IF options[i].option_type = "group"
    THEN search_group(i, rest_list, query, vals, shown,
                      search_options(Children(i), query, vals, exp, shown))
    ELSE search_prepend(
             IF is_substring(lower(query), lower(options[i].name)) THEN << i >> ELSE << >>,
             search_options(rest_list, query, vals, exp, shown))

\* search_options: the rows, the groups it expands, and the exception raised,
\* if any.
search_options(options_list, query, vals, exp, shown) ==
    IF Len(options_list) = 0 THEN Found(<< >>, exp, "")
    ELSE search_option(Head(options_list), Tail(options_list), query, vals, exp, shown,
                       IF shown THEN Return(PyTrue)
                       ELSE is_option_available(Head(options_list), vals))

\* Line 866: is_option_available(opt) and opt.value is None
needs_restore(available, current) == available /\ current = PyNone

RECURSIVE reset_dependent_options(_, _, _, _)
RECURSIVE reset_for_dependencies(_, _, _, _, _)

\* The next clause of opt, unless r (the calls so far) raised.
reset_continue(option, opt, deps, depth, r) ==
    IF r.err # "" THEN r
    ELSE reset_for_dependencies(option, opt, deps, r.vals, depth)

\* Lines 869-870, r being the outcome of lines 866-868.
reset_group(option, opt, deps, depth, r) ==
    IF r.err # "" THEN r
    ELSE reset_continue(option, opt, deps, depth,
             IF options[opt].option_type = "group"
             THEN reset_dependent_options(option, Children(opt), r.vals, depth + 1)
             ELSE r)

\* Lines 866-868, a being is_option_available(opt).
reset_restore(option, opt, deps, vals, depth, a) ==
    IF a.err # "" THEN Failed(vals, a.err)
    ELSE reset_group(option, opt, deps, depth,
             IF needs_restore(truthy(a.val), vals[opt])
             THEN reset_dependent_options(opt, TopLevel,
                      [vals EXCEPT ![opt] = default_value(options[opt])], depth + 1)
             ELSE Done(vals))

\* Line 865 with an else branch that hides opt when the clause is not met.
reset_clause_nulling(option, opt, deps, vals, depth, m) ==
    IF m.err # "" THEN Failed(vals, m.err)
    ELSE IF ~truthy(m.val)
    THEN reset_for_dependencies(option, opt, Tail(deps), [vals EXCEPT ![opt] = PyNone], depth)
    ELSE reset_restore(option, opt, Tail(deps), vals, depth, is_option_available(opt, vals))

\* Line 865, m being option_meets_dependency(option, dep).
reset_clause(option, opt, deps, vals, depth, m) ==
    IF m.err # "" THEN Failed(vals, m.err)
    ELSE IF ~truthy(m.val) THEN reset_for_dependencies(option, opt, Tail(deps), vals, depth)
    ELSE reset_restore(option, opt, Tail(deps), vals, depth, is_option_available(opt, vals))

\* The inner for loop of reset_dependent_options: the clauses of one opt.
reset_for_dependencies(option, opt, deps, vals, depth) ==
    IF Len(deps) = 0 THEN Done(vals)
    ELSE reset_clause(option, opt, deps, vals, depth,
                      option_meets_dependency(option, Head(deps), vals))

\* The next opt of the outer for loop, unless r (the calls so far) raised.
reset_tail(option, rest_list, depth, r) ==
    IF r.err # "" THEN r
    ELSE reset_dependent_options(option, rest_list, r.vals, depth)

reset_dependent_options(option, options_list, vals, depth) ==
    IF depth > MaxRecursion THEN Failed(vals, "RecursionError")
    ELSE IF Len(options_list) = 0 THEN Done(vals)
    ELSE reset_tail(option, Tail(options_list), depth,
             reset_for_dependencies(option, Head(options_list),
                 split_strip_nonempty(options[Head(options_list)].dependencies, <<"&", "&">>),
                 vals, depth))

Edited(vals, exp, returned, e) == [vals |-> vals, exp |-> exp, returned |-> returned, err |-> e]

\* handle_enter without the return of lines 690-691 for a hidden option.
enter_edit_hidden(sel, input, vals, exp, searching) ==
    IF options[sel].external
    THEN Edited(vals, exp, TRUE, "")
    ELSE IF options[sel].option_type = "bool"
    THEN Edited([vals EXCEPT ![sel] = PyBool(~truthy(vals[sel]))], exp, FALSE, "")
    ELSE IF options[sel].option_type = "group"
    THEN Edited(vals, IF ~searching THEN [exp EXCEPT ![sel] = ~exp[sel]] ELSE exp, FALSE, "")
    ELSE IF options[sel].option_type \in {"int", "string"}
    THEN Edited(IF input = PyNone \/ vals[sel] = PyNone THEN vals
                ELSE [vals EXCEPT ![sel] = input], exp, FALSE, "")
    ELSE IF options[sel].option_type = "multiple_choice"
    THEN Edited(vals, exp, FALSE, "NameError")
    ELSE Edited(vals, exp, FALSE, "")

\* The edit of handle_enter (lines 690-705): the values and expanded flags
\* after it, and whether it returned before reset_dependent_options.
\* input is the value edit_option ends with (None: aborted or not an int).
enter_edit(sel, input, vals, exp, searching) ==
    IF vals[sel] = PyNone /\ options[sel].option_type \notin {"group", "action"}
    THEN Edited(vals, exp, TRUE, "")
    ELSE IF options[sel].external
    THEN Edited(vals, exp, TRUE, "")
    ELSE IF options[sel].option_type = "bool"
    THEN Edited([vals EXCEPT ![sel] = PyBool(~truthy(vals[sel]))], exp, FALSE, "")
    ELSE IF options[sel].option_type = "group"
    THEN Edited(vals, IF ~searching THEN [exp EXCEPT ![sel] = ~exp[sel]] ELSE exp, FALSE, "")
    ELSE IF options[sel].option_type \in {"int", "string"}
    THEN Edited(IF input = PyNone \/ vals[sel] = PyNone THEN vals
                ELSE [vals EXCEPT ![sel] = input], exp, FALSE, "")
    ELSE IF options[sel].option_type = "multiple_choice"
    THEN \* edit_multiple_choice_option, line 794: max_x is not a name of
         \* that function or of the module
         Edited(vals, exp, FALSE, "NameError")
    ELSE Edited(vals, exp, FALSE, "")

Entered(vals, exp, e) == [vals |-> vals, exp |-> exp, err |-> e]

enter_result(e, r) == Entered(r.vals, e.exp, r.err)

\* Line 706, e being the outcome of the lines before it.
enter_reset(sel, e) ==
    IF e.err # "" \/ e.returned THEN Entered(e.vals, e.exp, e.err)
    ELSE enter_result(e, reset_dependent_options(sel, TopLevel, e.vals, 0))

handle_enter(sel, input, vals, exp, searching) ==
    enter_reset(sel, enter_edit(sel, input, vals, exp, searching))

----------------------------------------------------------------------------
(* pyconfix.apply_config: the values of a saved file written over the      *)
(* parsed defaults.  A saved file is a dictionary from option names to     *)
(* values, or absent.                                                      *)

RECURSIVE reset_hidden_dependent_options(_, _)

\* The rest of the loop after a group, r being the call on its options.
reset_hidden_rest(rest_list, r) ==
    IF r.err # "" THEN r ELSE reset_hidden_dependent_options(rest_list, r.vals)

\* Lines 389-390, a being is_option_available(option).
reset_hidden_option(i, rest_list, vals, a) ==
    IF a.err # "" THEN Failed(vals, a.err)
    ELSE reset_hidden_dependent_options(rest_list,
             IF truthy(a.val) THEN vals
             ELSE [vals EXCEPT ![i] = default_value(options[i])])

reset_hidden_dependent_options(options_list, vals) ==
    IF Len(options_list) = 0 THEN Done(vals)
    ELSE IF options[Head(options_list)].option_type = "group"
    THEN reset_hidden_rest(Tail(options_list),
             reset_hidden_dependent_options(Children(Head(options_list)), vals))
    ELSE reset_hidden_option(Head(options_list), Tail(options_list), vals,
                             is_option_available(Head(options_list), vals))

\* value if value else option.default
saved_choice(opt, v) == IF truthy(v) THEN v ELSE opt.default

\* Whether option.choices.index(label) finds the label.
has_choice(opt, label) == label.t = "str" /\ InSeq(label.s, opt.choices)

RECURSIVE apply_config_to_options(_, _, _)
RECURSIVE apply_config_loop(_, _, _)

apply_config_rest(rest_list, saved_config, r) ==
    IF r.err # "" THEN r ELSE apply_config_loop(rest_list, saved_config, r.vals)

\* Lines 379-382: the saved value of option i, label being the choice saved
\* for a multiple_choice option.
apply_config_value(i, rest_list, saved_config, vals, label) ==
    IF options[i].option_type # "multiple_choice"
    THEN apply_config_loop(rest_list, saved_config,
             [vals EXCEPT ![i] = saved_config[options[i].name]])
    ELSE IF has_choice(options[i], label)
    THEN apply_config_loop(rest_list, saved_config,
             [vals EXCEPT ![i] = PyInt(choices_index(options[i], label))])
    ELSE Failed(vals, "ValueError")

\* The for loop of apply_config_to_options.
apply_config_loop(options_list, saved_config, vals) ==
    IF Len(options_list) = 0 THEN Done(vals)
    ELSE IF options[Head(options_list)].option_type = "group"
    THEN apply_config_rest(Tail(options_list), saved_config,
             apply_config_to_options(Children(Head(options_list)), saved_config, vals))
    ELSE IF options[Head(options_list)].name \in DOMAIN saved_config
    THEN apply_config_value(Head(options_list), Tail(options_list), saved_config, vals,
             saved_choice(options[Head(options_list)],
                          saved_config[options[Head(options_list)].name]))
    ELSE apply_config_loop(Tail(options_list), saved_config, vals)

\* Line 383: every call, the nested ones included, ends with
\* reset_hidden_dependent_options(self.options).
apply_config_reset(r) ==
    IF r.err # "" THEN r ELSE reset_hidden_dependent_options(TopLevel, r.vals)

apply_config_to_options(options_list, saved_config, vals) ==
    apply_config_reset(apply_config_loop(options_list, saved_config, vals))

\* apply_config: nothing without a saved file.
apply_config(saved, vals) ==
    IF saved.exists THEN apply_config_to_options(TopLevel, saved.data, vals)
    ELSE Done(vals)

----------------------------------------------------------------------------
(* The pyconfix program: load_schem + apply_config, then menu_loop, one    *)
(* action per key.                                                         *)

MaxQuery == 1

OptionData(name, type, default, dependencies, choices, nested) ==
    [ name |-> name, type |-> type, default |-> default,
      dependencies |-> dependencies, choices |-> choices, options |-> nested ]

\* The schema of setup_option_manager (src/test.py).
SchemaTest ==
    << OptionData(<<"A">>, "bool", PyTrue, << >>, << >>, << >>),
       OptionData(<<"B">>, "bool", PyFalse, <<"A">>, << >>, << >>),
       OptionData(<<"C">>, "int", PyInt(5), <<"B">>, << >>, << >>),
       OptionData(<<"G", "r", "o", "u", "p", "1">>, "group", PyNone, << >>, << >>,
           << OptionData(<<"D">>, "string", PyStr(<<"h", "e", "l", "l", "o">>), << >>, << >>, << >>),
              OptionData(<<"E">>, "multiple_choice", PyStr(<<"o", "p", "t", "1">>), <<"!", "A">>,
                         << <<"o", "p", "t", "1">>, <<"o", "p", "t", "2">> >>, << >>) >>) >>

\* A chain C <- A <- {B, M} whose dependents precede their prerequisite.
SchemaChain ==
    << OptionData(<<"B">>, "bool", PyTrue, <<"A">>, << >>, << >>),
       OptionData(<<"M">>, "multiple_choice", PyStr(<<"y">>), <<"A">>, << <<"x">>, <<"y">> >>, << >>),
       OptionData(<<"A">>, "bool", PyTrue, <<"C">>, << >>, << >>),
       OptionData(<<"C">>, "bool", PyTrue, << >>, << >>, << >>) >>

\* A group with a dependency and options of its own.
SchemaGroup ==
    << OptionData(<<"F">>, "bool", PyTrue, << >>, << >>, << >>),
       OptionData(<<"G">>, "group", PyNone, <<"F">>, << >>,
           << OptionData(<<"I">>, "int", PyInt(1), << >>, << >>, << >>),
              OptionData(<<"H">>, "bool", PyFalse, <<"I">>, << >>, << >>) >>) >>

\* An option that requires a choice of a multiple_choice option nested in a
\* group, the clause spelling the name in upper case.
SchemaCase ==
    << OptionData(<<"K">>, "group", PyNone, << >>, << >>,
           << OptionData(<<"L", "o", "g", "_", "L", "e", "v", "e", "l">>, "multiple_choice", PyStr(<<"D", "E", "B", "U", "G">>), << >>,
                         << <<"D", "E", "B", "U", "G">>, <<"I", "N", "F", "O">> >>, << >>) >>),
       OptionData(<<"V">>, "bool", PyTrue, <<"L", "O", "G", "_", "L", "E", "V", "E", "L", "=", "=", "'", "D", "E", "B", "U", "G", "'">>, << >>, << >>) >>

\* An option whose dependency orders the value of an option that can be
\* hidden.
SchemaOrder ==
    << OptionData(<<"A">>, "bool", PyTrue, << >>, << >>, << >>),
       OptionData(<<"N">>, "int", PyInt(1), <<"A">>, << >>, << >>),
       OptionData(<<"W">>, "bool", PyFalse, <<"N", " ", ">", " ", "0">>, << >>, << >>) >>

\* A group with a dependency whose option has an alternative of its own.
SchemaOr ==
    << OptionData(<<"F">>, "bool", PyTrue, << >>, << >>, << >>),
       OptionData(<<"A">>, "bool", PyTrue, << >>, << >>, << >>),
       OptionData(<<"B">>, "bool", PyFalse, << >>, << >>, << >>),
       OptionData(<<"G">>, "group", PyNone, <<"F">>, << >>,
           << OptionData(<<"H">>, "bool", PyFalse, <<"A", " ", "|", "|", " ", "B">>, << >>, << >>) >>) >>

\* An option the embedding program marks external (as example.py does for OS),
\* appended to the parsed list.
ExternalOS(dependencies) ==
    ConfigOption(<<"O", "S">>, "string", PyStr(<<"U", "N", "I", "X">>), TRUE, dependencies, << >>, 0)

Schemas ==
    { parse_options(SchemaTest, 0, << >>, 0),
      parse_options(SchemaChain, 0, << >>, 0) \o << ExternalOS(<<"C">>) >>,
      parse_options(SchemaGroup, 0, << >>, 0) \o << ExternalOS(<< >>) >>,
      parse_options(SchemaCase, 0, << >>, 0),
      parse_options(SchemaOrder, 0, << >>, 0),
      parse_options(SchemaOr, 0, << >>, 0) }

\* ConfigOption.__init__ line 200 and parse_options line 355: the value an
\* option starts with.
initial_value(opt) == default_value(opt)

Handled(op, sel, err) == [op |-> op, sel |-> sel, err |-> err]

NoFile == [exists |-> FALSE, data |-> << >>]

SavedFile(data) == [exists |-> TRUE, data |-> data]

SavedName(c) == << c >>

\* The saved files the program is started with: none, two files of values
\* for the options of the schemas, and one whose choices are not among an
\* option's choices.
SavedConfigs ==
    { NoFile,
      SavedFile(SavedName("A") :> PyFalse @@ SavedName("E") :> PyStr(<<"o", "p", "t", "2">>)
                @@ SavedName("M") :> PyStr(<<"x">>) @@ SavedName("I") :> PyInt(2)
                @@ <<"L", "o", "g", "_", "L", "e", "v", "e", "l">> :> PyStr(<<"I", "N", "F", "O">>)),
      SavedFile(SavedName("B") :> PyNone @@ SavedName("C") :> PyFalse
                @@ SavedName("M") :> PyNone @@ SavedName("H") :> PyTrue),
      SavedFile(SavedName("E") :> PyStr(<<"x">>) @@ SavedName("M") :> PyStr(<<"z">>)) }

\* run(): the option values and the exception, if any, after load_schem and
\* apply_config.
Loaded(r) ==
    /\ value = r.vals
    /\ pc = IF r.err = "" THEN "draw" ELSE "crashed"
    /\ last = Handled("load", 0, r.err)

InitX ==
    /\ mode = "pyconfix"
    /\ src = [text |-> << >>, env |-> << >>, expect |-> NoResult, compiled |-> << >>]
    /\ stage = "none"
    /\ tokens = << >>
    /\ postfix = << >>
    /\ result = NoResult
    /\ options \in Schemas
    /\ pre = [i \in DOMAIN options |-> initial_value(options[i])]
    /\ hid = {}
    /\ \E saved \in SavedConfigs : Loaded(apply_config(saved, pre))
    /\ \E e \in BOOLEAN : expanded = [i \in DOMAIN options |-> e]
    /\ show_disabled \in BOOLEAN
    /\ search_mode = FALSE
    /\ search_query = << >>
    /\ current_row = 0
    /\ flat = << >>

\* The history the menu keeps of hidden edits (src/pyconfix.py, lines
\* 437-451 and 686-706): an option enters hid when a flatten_options pass
\* over the whole tree (unavailable options listed, every group expanded)
\* ends with its dependency false while it held an edited value (neither
\* None nor its default) before the pass, and leaves it when the user edits
\* it again.
Remember ==
    IF mode # "pyconfix" THEN hid
    ELSE IF /\ last'.op = "flatten" /\ last'.err = ""
            /\ show_disabled'
            /\ \A g \in Opts : options[g].option_type = "group" => expanded'[g]
    THEN hid \cup { i \in Opts :
                      /\ options[i].option_type # "group"
                      /\ value[i] # PyNone
                      /\ value[i] # default_value(options[i])
                      /\ ~truthy(is_option_available(i, value').val) }
    ELSE IF last'.op = "enter" /\ last'.sel \in Opts
    THEN IF value'[last'.sel] # value[last'.sel] THEN hid \ {last'.sel} ELSE hid
    ELSE hid

\* Lines 621-624: current_row clamped to the rows.
clamp_row(row, rows) ==
    LET r == IF row >= rows THEN rows - 1 ELSE row
    IN  IF r < 0 THEN 0 ELSE r

\* The top of the loop (lines 611-632), r being the new flat_options.
Redraw(name, r) ==
    /\ value' = r.vals
    /\ expanded' = r.exp
    /\ flat' = IF r.err = "" THEN r.flat ELSE flat
    /\ current_row' = IF r.err = "" THEN clamp_row(current_row, Len(r.flat))
                      ELSE current_row
    /\ pc' = IF r.err = "" THEN "key" ELSE "crashed"
    /\ last' = Handled(name, 0, r.err)
    /\ pre' = value
    /\ UNCHANGED << mode, exprVars, options, show_disabled, search_mode, search_query >>
    /\ hid' = Remember

Flattened(f, exp) == [vals |-> f.vals, flat |-> f.flat, exp |-> exp, err |-> f.err]

Searched(f, vals) == [vals |-> vals, flat |-> f.flat, exp |-> f.exp, err |-> f.err]

Draw ==
    /\ mode = "pyconfix"
    /\ pc = "draw"
    /\ IF search_mode
       THEN Redraw("search",
                Searched(search_options(TopLevel, search_query, value, expanded,
                                        show_disabled), value))
       ELSE Redraw("flatten",
                Flattened(flatten_options(TopLevel, value, expanded, show_disabled),
                          expanded))

\* What edit_option can leave in an int or string option: the text entered,
\* converted (None: aborted, or not an int).
EditInputs(opt) ==
    IF opt.option_type = "int" THEN {PyNone} \cup { PyInt(k) : k \in 0..MaxInt }
    ELSE IF opt.option_type = "string" THEN {PyNone, PyStr(<<"x">>), PyStr(<< >>)}
    ELSE {PyNone}

KeyDispatch == mode \in {"pyconfix", "library"} /\ pc = "key"

\* key == curses.KEY_RESIZE: continue
KeyResize ==
    /\ KeyDispatch
    /\ pc' = "draw"
    /\ last' = Handled("resize", 0, "")
    /\ pre' = value
    /\ UNCHANGED << mode, exprVars, options, value, expanded, show_disabled, search_mode,
                    search_query, current_row, flat >>
    /\ hid' = Remember

\* curses.KEY_UP / curses.KEY_DOWN, in either mode
KeyUpDown ==
    /\ KeyDispatch
    /\ \E up \in BOOLEAN :
          current_row' = IF up /\ current_row > 0 THEN current_row - 1
                         ELSE IF ~up /\ current_row < Len(flat) - 1 THEN current_row + 1
                         ELSE current_row
    /\ pc' = "draw"
    /\ last' = Handled("move", 0, "")
    /\ pre' = value
    /\ UNCHANGED << mode, exprVars, options, value, expanded, show_disabled, search_mode,
                    search_query, flat >>
    /\ hid' = Remember

\* The menu after a handle_enter that also stores the edited value as the
\* option's default.
AfterEnter_storing_default(sel, r) ==
    /\ value' = r.vals
    /\ expanded' = r.exp
    /\ pc' = IF r.err = "" THEN "draw" ELSE "crashed"
    /\ last' = Handled("enter", sel, r.err)
    /\ pre' = value
    /\ options' = [ i \in DOMAIN options |->
                      IF i = sel /\ options[i].option_type \in {"bool", "int", "string"}
                         /\ r.vals[i] # PyNone
                      THEN [options[i] EXCEPT !.default = r.vals[i]]
                      ELSE options[i] ]
    /\ UNCHANGED << mode, exprVars, show_disabled, search_mode, search_query,
                    current_row, flat >>
    /\ hid' = Remember

\* The menu after handle_enter, r being its outcome.
AfterEnter(sel, r) ==
    /\ value' = r.vals
    /\ expanded' = r.exp
    /\ pc' = IF r.err = "" THEN "draw" ELSE "crashed"
    /\ last' = Handled("enter", sel, r.err)
    /\ pre' = value
    /\ UNCHANGED << mode, exprVars, options, show_disabled, search_mode, search_query,
                    current_row, flat >>
    /\ hid' = Remember

\* curses.KEY_ENTER, in either mode: handle_enter(flat_options, current_row, ...)
KeyEnter ==
    /\ KeyDispatch
    /\ mode = "pyconfix"
    /\ IF Len(flat) = 0
       THEN AfterEnter(0, Entered(value, expanded, ""))
       ELSE \E input \in EditInputs(options[flat[current_row + 1]]) :
               AfterEnter(flat[current_row + 1],
                          handle_enter(flat[current_row + 1], input, value, expanded,
                                       search_mode))

\* collapse_current_group (lines 817-830)
collapse_current_group(rows, row, exp, searching) ==
    LET sel == rows[row + 1] IN
    IF options[sel].option_type = "group"
    THEN LET e1 == [exp EXCEPT ![sel] = ~exp[sel]]
         IN  [exp |-> IF searching
                      THEN [i \in DOMAIN exp |->
                              IF InSeq(i, rows) /\ options[i].parent = sel
                              THEN e1[sel] ELSE e1[i]]
                      ELSE e1,
              row |-> row]
    ELSE LET holders == { k \in DOMAIN rows :
                            /\ options[rows[k]].option_type = "group"
                            /\ exp[rows[k]]
                            /\ options[sel].parent = rows[k] }
         IN  IF holders = {} THEN [exp |-> exp, row |-> row]
             ELSE LET k == CHOOSE k \in holders : \A j \in holders : k <= j
                  IN  [exp |-> [exp EXCEPT ![rows[k]] = FALSE], row |-> k - 1]

\* key == self.collapse_key, outside search mode
KeyCollapse ==
    /\ KeyDispatch
    /\ ~search_mode
    /\ IF Len(flat) = 0
       THEN /\ UNCHANGED << expanded, current_row >>
            /\ pc' = "crashed"
            /\ last' = Handled("collapse", 0, "IndexError")
       ELSE LET r == collapse_current_group(flat, current_row, expanded, search_mode) IN
            /\ expanded' = r.exp
            /\ current_row' = r.row
            /\ pc' = "draw"
            /\ last' = Handled("collapse", flat[current_row + 1], "")
    /\ pre' = value
    /\ UNCHANGED << mode, exprVars, options, value, show_disabled, search_mode,
                    search_query, flat >>
    /\ hid' = Remember

\* key == self.search_key, outside search mode
KeySearch ==
    /\ KeyDispatch
    /\ ~search_mode
    /\ search_mode' = TRUE
    /\ search_query' = << >>
    /\ current_row' = 0
    /\ pc' = "draw"
    /\ last' = Handled("search_key", 0, "")
    /\ pre' = value
    /\ UNCHANGED << mode, exprVars, options, value, expanded, show_disabled, flat >>
    /\ hid' = Remember

\* In search mode: a printable key (32..126), backspace, or the abort key not
\* followed by another key within the timeout.
SearchChars == {"a", "B"}

KeyQuery ==
    /\ KeyDispatch
    /\ search_mode
    /\ \/ \E c \in SearchChars :
             /\ Len(search_query) < MaxQuery
             /\ search_query' = Append(search_query, c)
             /\ UNCHANGED search_mode
       \/ /\ search_query' = IF Len(search_query) > 0 THEN Front(search_query) ELSE << >>
          /\ UNCHANGED search_mode
       \/ /\ search_mode' = FALSE
          /\ search_query' = << >>
    /\ pc' = "draw"
    /\ last' = Handled("query", 0, "")
    /\ pre' = value
    /\ UNCHANGED << mode, exprVars, options, value, expanded, show_disabled, current_row,
                    flat >>
    /\ hid' = Remember

\* key == self.quite_key, outside search mode: break
KeyQuit ==
    /\ KeyDispatch
    /\ ~search_mode
    /\ pc' = "done"
    /\ last' = Handled("quit", 0, "")
    /\ pre' = value
    /\ UNCHANGED << mode, exprVars, options, value, expanded, show_disabled, search_mode,
                    search_query, current_row, flat >>
    /\ hid' = Remember

\* Lines 855-857: option.choices[option.value] for a multiple_choice option,
\* the value itself otherwise; None stays None.
value_to_save(opt, v) ==
    IF v = PyNone THEN Return(PyNone)
    ELSE IF opt.option_type # "multiple_choice" THEN Return(v)
    ELSE IF v.t \notin {"bool", "int"} THEN Raise("TypeError")
    ELSE IF v.n + 1 \in DOMAIN opt.choices THEN Return(PyStr(opt.choices[v.n + 1]))
    ELSE Raise("IndexError")

\* config_data as the list of its updates, in order: the entry of a name is
\* the value of the last pair that carries it.
KeyValues(pairs, e) == [pairs |-> pairs, err |-> e]

\* Line 858 without the availability test.
key_value_option_unconditional(opt, saved, available) ==
    IF saved.err # "" THEN KeyValues(<< >>, saved.err)
    ELSE IF available.err # "" THEN KeyValues(<< >>, available.err)
    ELSE KeyValues(<< [name |-> opt.name, val |-> saved.val] >>, "")

\* Lines 855-858, saved being value_to_save and available the outcome of
\* is_option_available(option).
key_value_option(opt, saved, available) ==
    IF saved.err # "" THEN KeyValues(<< >>, saved.err)
    ELSE IF available.err # "" THEN KeyValues(<< >>, available.err)
    ELSE KeyValues(<< [name |-> opt.name,
                       val |-> IF truthy(available.val) THEN saved.val ELSE PyNone] >>, "")

\* Lines 850-853, nested being the data of the group's options.
key_value_group(nested, available) ==
    IF nested.err # "" THEN nested
    ELSE IF available.err # "" THEN KeyValues(<< >>, available.err)
    ELSE IF truthy(available.val) THEN nested
    ELSE KeyValues([k \in DOMAIN nested.pairs |->
                       [name |-> nested.pairs[k].name, val |-> PyNone]], "")

\* config_data.update and the rest of the loop.
key_value_update(first, rest) ==
    IF first.err # "" THEN first
    ELSE IF rest.err # "" THEN rest
    ELSE KeyValues(first.pairs \o rest.pairs, "")

RECURSIVE flatten_options_key_value(_, _)
flatten_options_key_value(options_list, vals) ==
    IF Len(options_list) = 0 THEN KeyValues(<< >>, "")
    ELSE IF options[Head(options_list)].option_type = "action"
    THEN flatten_options_key_value(Tail(options_list), vals)
    ELSE key_value_update(
             IF options[Head(options_list)].option_type = "group"
             THEN key_value_group(
                      flatten_options_key_value(Children(Head(options_list)), vals),
                      is_option_available(Head(options_list), vals))
             ELSE key_value_option(
                      options[Head(options_list)],
                      value_to_save(options[Head(options_list)], vals[Head(options_list)]),
                      is_option_available(Head(options_list), vals)),
             flatten_options_key_value(Tail(options_list), vals))

\* The menu after save_config, r being the data it wrote.
AfterSave(r) ==
    /\ pc' = IF r.err = "" THEN "draw" ELSE "crashed"
    /\ last' = Handled("save", 0, r.err)
    /\ pre' = value
    /\ UNCHANGED << mode, exprVars, options, value, expanded, show_disabled, search_mode,
                    search_query, current_row, flat >>
    /\ hid' = Remember

\* key == self.save_key, outside search mode: save_config
KeySave ==
    /\ KeyDispatch
    /\ mode = "pyconfix"
    /\ ~search_mode
    /\ AfterSave(flatten_options_key_value(TopLevel, value))

NextX ==
    \/ Draw
    \/ KeyResize
    \/ KeyUpDown
    \/ KeyEnter
    \/ KeySave
    \/ KeyCollapse
    \/ KeySearch
    \/ KeyQuery
    \/ KeyQuit

SpecX == InitX /\ [][NextX]_vars

----------------------------------------------------------------------------
(* Claims about the visibility pass and the cascade of src/pyconfix.py     *)
(* (checked under SpecX).  last names the handler that ran last and pre    *)
(* holds the option values it started from.                                *)

\* The pass walked every option: no group is collapsed and unavailable
\* options are listed.
WholeTreeWalked ==
    /\ show_disabled
    /\ \A g \in Opts : options[g].option_type = "group" => expanded[g]

AfterFlatten == mode = "pyconfix" /\ last.op = "flatten" /\ last.err = ""

AfterEnter_(sel) == mode = "pyconfix" /\ last.op = "enter" /\ last.sel = sel

Available(i) == truthy(is_option_available(i, value).val)

\* The dependency of b is exactly the name of a.
DependsOnly(b, a) == options[b].dependencies = options[a].name

\* C1: after flatten_options has walked the whole tree, every non-group
\* option has the value None if and only if its dependency expression
\* evaluates to false under the options' current values.
C1_NullIffDependencyFalse ==
    (AfterFlatten /\ WholeTreeWalked) =>
        \A i \in Opts :
            options[i].option_type # "group" => ((value[i] = PyNone) <=> ~Available(i))

\* C2: flatten_options is idempotent: run again right after itself, with no
\* edit in between, it leaves every option's value as the first run left it.
C2_FlattenIdempotent ==
    AfterFlatten =>
        flatten_options(TopLevel, value, expanded, show_disabled).vals = value

\* C3 as stated: once a bool A went from true to false and
\* reset_dependent_options(A) ran (and nothing else), an option B whose
\* dependency is "A" has the value None.
C3_DependentIsNulled ==
    \A a, b \in Opts :
        ( /\ AfterEnter_(a) /\ last.err = ""
          /\ options[a].option_type = "bool"
          /\ options[a].default = PyTrue
          /\ pre[a] = PyTrue /\ value[a] = PyFalse
          /\ DependsOnly(b, a) )
        => value[b] = PyNone

\* C3 as amended: after a bool A went from true to false and
\* reset_dependent_options(A) ran, an option B whose dependency is "A" holds
\* the value it held before, and reset_dependent_options sets no option to
\* None; B, when it is in the top-level list, is set to None by the next
\* flatten_options.
C3_NulledByNextFlatten ==
    /\ \A a, b \in Opts :
          ( /\ AfterEnter_(a)
            /\ options[a].option_type = "bool"
            /\ pre[a] = PyTrue /\ value[a] = PyFalse
            /\ DependsOnly(b, a) )
          => value[b] = pre[b]
    /\ (mode = "pyconfix" /\ last.op = "enter") =>
          \A i \in Opts : value[i] = PyNone => pre[i] = PyNone
    /\ \A a, b \in Opts :
          ( /\ AfterFlatten
            /\ pre[a] = PyFalse
            /\ options[b].parent = 0
            /\ options[b].option_type # "group"
            /\ DependsOnly(b, a) )
          => value[b] = PyNone

\* C3 witness: A was just toggled from true to false and its dependent B
\* still holds a value.
C3_Witness ==
    \E a, b \in Opts :
        /\ AfterEnter_(a) /\ last.err = ""
        /\ options[a].default = PyTrue
        /\ pre[a] = PyTrue /\ value[a] = PyFalse
        /\ DependsOnly(b, a)
        /\ value[b] # PyNone

----------------------------------------------------------------------------
(* The option engine of src/library/pyconfig.py (class pyconfig), whose    *)
(* dependencies are lists of clauses: name, !name or name=value-list.  It  *)
(* uses the same arena.                                                    *)

\* ConfigOption.__init__ (library): the fields fixed at construction.
pyconfig_ConfigOption(name, option_type, default, external, dependencies, choices, parent) ==
    [ name |-> name,
      option_type |-> option_type,
      default |-> default,
      external |-> external,
      dependencies |-> dependencies,
      choices |-> choices,
      parent |-> parent ]

\* pyconfig.parse_options: the arena entries of a list of option definitions
\* whose options get the indices base + 1, base + 2, ...
RECURSIVE pyconfig_parse_options(_, _, _, _)
pyconfig_parse_options(options_data, parent, group_dependencies, base) ==
    IF Len(options_data) = 0 THEN << >>
    ELSE
    LET option_data == Head(options_data)
        me == base + 1
        dependencies == option_data.dependencies \o group_dependencies
        option == pyconfig_ConfigOption(option_data.name, option_data.type,
                      option_data.default, FALSE, dependencies, option_data.choices, parent)
        nested == IF option_data.type = "group"
                  THEN pyconfig_parse_options(option_data.options, me, dependencies, me)
                  ELSE << >>
        \* [opt.dependencies.extend(group_dependencies) for opt in option.options]
        children == [ k \in DOMAIN nested |->
                        IF nested[k].parent = me
                        THEN [ nested[k] EXCEPT !.dependencies = @ \o group_dependencies ]
                        ELSE nested[k] ]
    IN  << option >> \o children
        \o pyconfig_parse_options(Tail(options_data), parent, group_dependencies,
                                  me + Len(children))

\* option.choices[option.value]
pyconfig_choice(opt, v) ==
    IF v.t \notin {"bool", "int"} THEN Raise("TypeError")
    ELSE IF v.n + 1 \in DOMAIN opt.choices THEN Return(PyStr(opt.choices[v.n + 1]))
    ELSE Raise("IndexError")

\* value in values, for a list of strings
value_in(v, values) == v.t = "str" /\ InSeq(v.s, values)

\* Lines 175-180, choice being option.choices[option.value].
meets_key_value(opt, v, key, values, choice) ==
    IF opt.name = key /\ value_in(v, values) THEN Return(PyTrue)
    ELSE IF opt.option_type = "multiple_choice"
    THEN IF choice.err # "" THEN choice
         ELSE Return(PyBool(InSeq(choice.val.s, values)))
    ELSE Return(PyBool(\/ opt.option_type = "int" /\ InSeq(py_str(v), values)
                       \/ opt.option_type = "string" /\ value_in(v, values)))

pyconfig_option_meets_dependency(i, dependency_string, vals) ==
    IF options[i].option_type = "group" THEN Return(PyFalse)
    ELSE IF Len(dependency_string) > 0 /\ dependency_string[1] = "!"
    THEN Return(PyBool(options[i].name = Tail(dependency_string) /\ ~truthy(vals[i])))
    ELSE IF vals[i] = PyNone THEN Return(PyFalse)
    ELSE IF matches_key_value(dependency_string)
    THEN meets_key_value(options[i], vals[i], match_key(dependency_string),
                         split_strip(match_value(dependency_string), <<",">>),
                         pyconfig_choice(options[i], vals[i]))
    ELSE Return(PyBool(options[i].name = dependency_string /\ truthy(vals[i])))

RECURSIVE is_dependency_met(_, _, _)

\* any(...): stops at the first option that meets the clause
any_option_meets(dependency_string, rest_list, vals, m) ==
    IF m.err # "" THEN m
    ELSE IF truthy(m.val) THEN Return(PyTrue)
    ELSE is_dependency_met(dependency_string, rest_list, vals)

is_dependency_met(dependency_string, options_list, vals) ==
    IF Len(options_list) = 0 THEN Return(PyFalse)
    ELSE any_option_meets(dependency_string, Tail(options_list), vals,
             pyconfig_option_meets_dependency(Head(options_list), dependency_string, vals))

RECURSIVE all_dependencies_met(_, _)

\* all(...): stops at the first clause that is not met
all_step(rest_deps, vals, m) ==
    IF m.err # "" THEN m
    ELSE IF ~truthy(m.val) THEN Return(PyFalse)
    ELSE all_dependencies_met(rest_deps, vals)

all_dependencies_met(deps, vals) ==
    IF Len(deps) = 0 THEN Return(PyTrue)
    ELSE all_step(Tail(deps), vals, is_dependency_met(Head(deps), TopLevel, vals))

pyconfig_is_option_available(i, vals) == all_dependencies_met(options[i].dependencies, vals)

RECURSIVE pyconfig_flatten_options(_, _, _, _)

pyconfig_flatten_rest(i, rest_list, exp, shown, sub) ==
    IF sub.err # "" THEN sub
    ELSE flatten_append(i, sub, pyconfig_flatten_options(rest_list, sub.vals, exp, shown))

\* The body of the for loop for option i, a being is_option_available(i).
pyconfig_flatten_option(i, rest_list, vals, exp, shown, a) ==
    IF a.err # "" THEN Rows(vals, << >>, a.err)
    ELSE IF ~truthy(a.val) /\ ~shown
    THEN pyconfig_flatten_options(rest_list, apply_visibility_to(i, vals, FALSE), exp, shown)
    ELSE pyconfig_flatten_rest(i, rest_list, exp, shown,
             IF options[i].option_type = "group" /\ exp[i]
             THEN pyconfig_flatten_options(Children(i),
                      apply_visibility_to(i, vals, truthy(a.val)), exp, shown)
             ELSE Rows(apply_visibility_to(i, vals, truthy(a.val)), << >>, ""))

pyconfig_flatten_options(options_list, vals, exp, shown) ==
    IF Len(options_list) = 0 THEN Rows(vals, << >>, "")
    ELSE pyconfig_flatten_option(Head(options_list), Tail(options_list), vals, exp, shown,
                                 pyconfig_is_option_available(Head(options_list), vals))

RECURSIVE pyconfig_search_options(_, _, _, _, _)

pyconfig_search_group(i, rest_list, query, vals, shown, nested) ==
    IF nested.err # "" THEN nested
    ELSE IF Len(nested.flat) > 0
    THEN search_prepend(<< i >> \o nested.flat,
             pyconfig_search_options(rest_list, query, vals,
                                     [nested.exp EXCEPT ![i] = TRUE], shown))
    ELSE pyconfig_search_options(rest_list, query, vals, nested.exp, shown)

pyconfig_search_option(i, rest_list, query, vals, exp, shown, a) ==
    IF a.err # "" THEN Found(<< >>, exp, a.err)
    ELSE IF ~truthy(a.val) THEN pyconfig_search_options(rest_list, query, vals, exp, shown)
    ELSE IF options[i].option_type = "group"
    THEN pyconfig_search_group(i, rest_list, query, vals, shown,
                               pyconfig_search_options(Children(i), query, vals, exp, shown))
    ELSE search_prepend(
             IF is_substring(lower(query), lower(options[i].name)) THEN << i >> ELSE << >>,
             pyconfig_search_options(rest_list, query, vals, exp, shown))

pyconfig_search_options(options_list, query, vals, exp, shown) ==
    IF Len(options_list) = 0 THEN Found(<< >>, exp, "")
    ELSE pyconfig_search_option(Head(options_list), Tail(options_list), query, vals, exp,
                                shown,
                                IF shown THEN Return(PyTrue)
                                ELSE pyconfig_is_option_available(Head(options_list), vals))

RECURSIVE meets_any_dependency(_, _, _)

\* any(self.option_meets_dependency(option, dep) for dep in opt.dependencies)
any_dependency_step(option, rest_deps, vals, m) ==
    IF m.err # "" THEN m
    ELSE IF truthy(m.val) THEN Return(PyTrue)
    ELSE meets_any_dependency(option, rest_deps, vals)

meets_any_dependency(option, deps, vals) ==
    IF Len(deps) = 0 THEN Return(PyFalse)
    ELSE any_dependency_step(option, Tail(deps), vals,
             pyconfig_option_meets_dependency(option, Head(deps), vals))

RECURSIVE pyconfig_reset_dependent_options(_, _, _, _)

\* The next opt of the for loop, unless r (the calls so far) raised.
pyconfig_reset_tail(option, rest_list, depth, r) ==
    IF r.err # "" THEN r
    ELSE pyconfig_reset_dependent_options(option, rest_list, r.vals, depth)

\* Lines 562-563, r being the outcome of lines 559-561.
pyconfig_reset_group(option, opt, rest_list, depth, r) ==
    IF r.err # "" THEN r
    ELSE pyconfig_reset_tail(option, rest_list, depth,
             IF options[opt].option_type = "group"
             THEN pyconfig_reset_dependent_options(option, Children(opt), r.vals, depth + 1)
             ELSE r)

\* Lines 559-561, a being is_option_available(opt).
pyconfig_reset_restore(option, opt, rest_list, vals, depth, a) ==
    IF a.err # "" THEN Failed(vals, a.err)
    ELSE pyconfig_reset_group(option, opt, rest_list, depth,
             IF needs_restore(truthy(a.val), vals[opt])
             THEN pyconfig_reset_dependent_options(opt, TopLevel,
                      [vals EXCEPT ![opt] = default_value(options[opt])], depth + 1)
             ELSE Done(vals))

\* Line 558, m being any(option_meets_dependency(option, dep) ...).
pyconfig_reset_opt(option, opt, rest_list, vals, depth, m) ==
    IF m.err # "" THEN Failed(vals, m.err)
    ELSE IF ~truthy(m.val)
    THEN pyconfig_reset_dependent_options(option, rest_list, vals, depth)
    ELSE pyconfig_reset_restore(option, opt, rest_list, vals, depth,
                                pyconfig_is_option_available(opt, vals))

pyconfig_reset_dependent_options(option, options_list, vals, depth) ==
    IF depth > MaxRecursion THEN Failed(vals, "RecursionError")
    ELSE IF Len(options_list) = 0 THEN Done(vals)
    ELSE pyconfig_reset_opt(option, Head(options_list), Tail(options_list), vals, depth,
             meets_any_dependency(option, options[Head(options_list)].dependencies, vals))

\* The edit of pyconfig.handle_enter (lines 423-438).  input is the value
\* edit_option or edit_multiple_choice_option ends with (None: cancelled, or
\* not an int).
pyconfig_enter_edit(sel, input, vals, exp, searching) ==
    IF vals[sel] = PyNone /\ options[sel].option_type # "group"
    THEN Edited(vals, exp, TRUE, "")
    ELSE IF options[sel].external
    THEN Edited(vals, exp, TRUE, "")
    ELSE IF options[sel].option_type = "bool"
    THEN Edited([vals EXCEPT ![sel] = PyBool(~truthy(vals[sel]))], exp, FALSE, "")
    ELSE IF options[sel].option_type = "group"
    THEN Edited(vals, IF ~searching THEN [exp EXCEPT ![sel] = ~exp[sel]] ELSE exp, FALSE, "")
    ELSE IF options[sel].option_type \in {"int", "string", "multiple_choice"}
    THEN Edited(IF input = PyNone THEN vals ELSE [vals EXCEPT ![sel] = input],
                exp, FALSE, "")
    ELSE Edited(vals, exp, FALSE, "")

\* Line 440, e being the outcome of the lines before it.
pyconfig_enter_reset(sel, e) ==
    IF e.returned THEN Entered(e.vals, e.exp, e.err)
    ELSE enter_result(e, pyconfig_reset_dependent_options(sel, TopLevel, e.vals, 0))

pyconfig_handle_enter(sel, input, vals, exp, searching) ==
    pyconfig_enter_reset(sel, pyconfig_enter_edit(sel, input, vals, exp, searching))

\* pyconfig.find_option(name, self.options): the first option of the list
\* with that name, or 0 for None
RECURSIVE find_option(_, _)
find_option(name, options_list) ==
    IF Len(options_list) = 0 THEN 0
    ELSE IF options[Head(options_list)].name = name THEN Head(options_list)
    ELSE find_option(name, Tail(options_list))

\* Lines 576-582: the key is_externally_restricted looks up for a clause.  In
\* the '!' branch line 578 compares (key == ...) where an assignment was
\* meant, so key stays "".
restricted_key(dependency_string) ==
    IF Len(dependency_string) > 0 /\ dependency_string[1] = "!" THEN << >>
    ELSE IF matches_key_value(dependency_string) THEN match_key(dependency_string)
    ELSE dependency_string

RECURSIVE is_externally_restricted(_, _)
RECURSIVE restricted_by_dependencies(_, _)

\* Lines 587-589, r being is_externally_restricted(opt).
restricted_step(rest_deps, depth, r) ==
    IF r.err # "" \/ truthy(r.val) THEN r
    ELSE restricted_by_dependencies(rest_deps, depth)

\* The for loop of is_externally_restricted.
restricted_by_dependencies(deps, depth) ==
    IF Len(deps) = 0 THEN Return(PyFalse)
    ELSE IF find_option(restricted_key(Head(deps)), TopLevel) = 0 THEN Return(PyFalse)
    ELSE restricted_step(Tail(deps), depth,
             is_externally_restricted(find_option(restricted_key(Head(deps)), TopLevel),
                                      depth + 1))

is_externally_restricted(i, depth) ==
    IF depth > MaxRecursion THEN Raise("RecursionError")
    ELSE IF options[i].external THEN Return(PyTrue)
    ELSE restricted_by_dependencies(options[i].dependencies, depth)

option_in_dependency(i, dependency_string) ==
    IF options[i].option_type = "group" THEN FALSE
    ELSE IF Len(dependency_string) > 0 /\ dependency_string[1] = "!"
    THEN options[i].name = Tail(dependency_string)
    ELSE IF matches_key_value(dependency_string)
    THEN options[i].name = match_key(dependency_string)
    ELSE options[i].name = dependency_string

\* Lines 613-614, choice being option.choices[option.value]; line 614 reads
\* option.defalut, an attribute ConfigOption does not have.
extract_multiple_choice(v, listed, choice) ==
    IF choice.err # "" THEN choice
    ELSE IF is_substring(choice.val.s, listed) THEN Return(v)
    ELSE Raise("AttributeError")

extract_force_enable_value_if_applicable(i, dependency_string, vals) ==
    IF options[i].option_type = "group" THEN Return(PyNone)
    ELSE IF Len(dependency_string) > 0 /\ dependency_string[1] = "!"
    THEN IF options[i].name = Tail(dependency_string) /\ truthy(vals[i])
         THEN Return(PyFalse)
         ELSE Return(vals[i])
    ELSE IF matches_key_value(dependency_string)
            /\ options[i].name = match_key(dependency_string)
    THEN IF options[i].option_type = "multiple_choice"
         THEN extract_multiple_choice(vals[i], match_value(dependency_string),
                                      pyconfig_choice(options[i], vals[i]))
         ELSE IF ~is_substring(py_str(vals[i]), match_value(dependency_string))
         THEN Return(PyStr(split_strip(match_value(dependency_string), <<",">>)[1]))
         ELSE Return(vals[i])
    ELSE IF options[i].name = dependency_string THEN Return(PyTrue)
    ELSE Return(PyNone)

\* Lines 621-626 with "set_value or ..." in place of "set_value != None".
forced_value_truthy(opt, set_value) ==
    IF truthy(set_value) THEN set_value
    ELSE IF opt.option_type = "bool" THEN PyTrue
    ELSE IF opt.option_type = "multiple_choice"
    THEN PyInt(choices_index(opt, opt.default))
    ELSE opt.default

\* Lines 621-626: the value force_enable_option assigns.
forced_value(opt, set_value) ==
    IF set_value # PyNone THEN set_value
    ELSE IF opt.option_type = "bool" THEN PyTrue
    ELSE IF opt.option_type = "multiple_choice"
    THEN PyInt(choices_index(opt, opt.default))
    ELSE opt.default

RECURSIVE force_enable_option(_, _, _, _)
RECURSIVE force_prerequisites(_, _, _, _, _)

\* The next (opt, dep) pair, unless r (the calls so far) raised.
force_next(option, options_list, deps, depth, r) ==
    IF r.err # "" THEN r
    ELSE force_prerequisites(option, options_list, deps, r.vals, depth)

\* Line 634, x being the extracted value of line 633.
force_extracted(option, options_list, deps, vals, depth, x) ==
    IF x.err # "" THEN Failed(vals, x.err)
    ELSE force_next(option, options_list, deps, depth,
                    force_enable_option(Head(options_list), x.val, vals, depth + 1))

\* Lines 630-634: for opt in self.options: for dep in option.dependencies;
\* deps are the clauses still to try for the first opt of options_list.
force_prerequisites(option, options_list, deps, vals, depth) ==
    IF Len(options_list) = 0 THEN Done(vals)
    ELSE IF Len(deps) = 0
    THEN force_prerequisites(option, Tail(options_list), options[option].dependencies,
                             vals, depth)
    ELSE IF ~option_in_dependency(Head(options_list), Head(deps))
    THEN force_prerequisites(option, options_list, Tail(deps), vals, depth)
    ELSE force_extracted(option, options_list, Tail(deps), vals, depth,
             extract_force_enable_value_if_applicable(Head(options_list), Head(deps), vals))

\* Lines 630-634, r being the outcome of reset_dependent_options (line 628).
force_after_reset(option, depth, r) ==
    IF r.err # "" THEN r
    ELSE force_prerequisites(option, TopLevel, options[option].dependencies, r.vals, depth)

force_enable_option(option, set_value, vals, depth) ==
    IF depth > MaxRecursion THEN Failed(vals, "RecursionError")
    ELSE force_after_reset(option, depth,
             pyconfig_reset_dependent_options(option, TopLevel,
                 [vals EXCEPT ![option] = forced_value(options[option], set_value)],
                 depth + 1))

Forced(vals, outcome, e) == [vals |-> vals, outcome |-> outcome, err |-> e]

forced_outcome(r) == Forced(r.vals, "forced", r.err)

\* Lines 413-415, once is_externally_restricted returned false.
force_unless_set(sel, vals) ==
    IF vals[sel] # PyNone \/ options[sel].option_type = "group"
    THEN Forced(vals, "ignored", "")
    ELSE forced_outcome(force_enable_option(sel, PyNone, vals, 0))

\* handle_force_enable, r being is_externally_restricted(selected_option):
\* the prompt "This item has external dependencies which cannot be modified"
\* is the outcome "restricted".
force_unless_restricted(sel, vals, r) ==
    IF r.err # "" THEN Forced(vals, "raised", r.err)
    ELSE IF truthy(r.val) THEN Forced(vals, "restricted", "")
    ELSE force_unless_set(sel, vals)

handle_force_enable(sel, vals) ==
    force_unless_restricted(sel, vals, is_externally_restricted(sel, 0))

----------------------------------------------------------------------------
(* The library program: pyconfig.__init__ (init_func, load_config, no      *)
(* saved file), then menu_loop.  Its loop handles the keys of the pyconfix *)
(* loop the same way and adds the force-enable key.                        *)

\* The option example.py's init_function adds before the schema is parsed.
pyconfig_ExternalOS ==
    pyconfig_ConfigOption(<<"O", "S">>, "string", PyStr(<<"U", "N", "I", "X">>), TRUE, << >>, << >>, 0)

\* An external switch that is off.
pyconfig_ExternalOff ==
    pyconfig_ConfigOption(<<"E">>, "bool", PyFalse, TRUE, << >>, << >>, 0)

\* O needs X off, X needs Y; W needs the external OS off, V needs W.
SchemaForce ==
    << OptionData(<<"O">>, "bool", PyFalse, << <<"!", "X">> >>, << >>, << >>),
       OptionData(<<"X">>, "bool", PyTrue, << <<"Y">> >>, << >>, << >>),
       OptionData(<<"Y">>, "bool", PyTrue, << >>, << >>, << >>),
       OptionData(<<"W">>, "bool", PyFalse, << <<"!", "O", "S">> >>, << >>, << >>),
       OptionData(<<"V">>, "bool", PyFalse, << <<"W">> >>, << >>, << >>) >>

\* Q needs P, P needs the external E; T needs N, which is inside a group.
SchemaRestricted ==
    << OptionData(<<"P">>, "bool", PyFalse, << <<"E">> >>, << >>, << >>),
       OptionData(<<"Q">>, "bool", PyFalse, << <<"P">> >>, << >>, << >>),
       OptionData(<<"G">>, "group", PyNone, << >>, << >>,
           << OptionData(<<"N">>, "bool", PyTrue, << >>, << >>, << >>) >>),
       OptionData(<<"T">>, "bool", PyFalse, << <<"N">> >>, << >>, << >>) >>

\* Clauses with a value list, over an int and a multiple_choice option.
SchemaValues ==
    << OptionData(<<"M">>, "multiple_choice", PyStr(<<"b">>), << >>, << <<"a">>, <<"b">> >>, << >>),
       OptionData(<<"K">>, "bool", PyFalse, << <<"M", "=", "a">> >>, << >>, << >>),
       OptionData(<<"I">>, "int", PyInt(1), << >>, << >>, << >>),
       OptionData(<<"J">>, "bool", PyFalse, << <<"I", "=", "2">> >>, << >>, << >>) >>

\* Bare-name and negated clauses over multiple_choice options: T needs S, which
\* has a single choice; R needs N to be off.
SchemaChoice ==
    << OptionData(<<"S">>, "multiple_choice", PyStr(<<"a">>), << >>, << <<"a">> >>, << >>),
       OptionData(<<"T">>, "bool", PyFalse, << <<"S">> >>, << >>, << >>),
       OptionData(<<"N">>, "multiple_choice", PyStr(<<"b">>), << >>, << <<"a">>, <<"b">> >>, << >>),
       OptionData(<<"R">>, "bool", PyFalse, << <<"!", "N">> >>, << >>, << >>) >>

\* Two options that each require the other off, and one that requires itself.
SchemaCycle ==
    << OptionData(<<"A">>, "bool", PyFalse, << <<"!", "B">> >>, << >>, << >>),
       OptionData(<<"B">>, "bool", PyFalse, << <<"!", "A">> >>, << >>, << >>),
       OptionData(<<"C">>, "bool", PyFalse, << <<"C">> >>, << >>, << >>) >>

pyconfig_Schemas ==
    { << pyconfig_ExternalOS >> \o pyconfig_parse_options(SchemaForce, 0, << >>, 1),
      << pyconfig_ExternalOff >> \o pyconfig_parse_options(SchemaRestricted, 0, << >>, 1),
      pyconfig_parse_options(SchemaValues, 0, << >>, 0),
      pyconfig_parse_options(SchemaChoice, 0, << >>, 0),
      pyconfig_parse_options(SchemaCycle, 0, << >>, 0) }

InitL ==
    /\ mode = "library"
    /\ src = [text |-> << >>, env |-> << >>, expect |-> NoResult, compiled |-> << >>]
    /\ stage = "none"
    /\ tokens = << >>
    /\ postfix = << >>
    /\ result = NoResult
    /\ options \in pyconfig_Schemas
    /\ value = [i \in DOMAIN options |-> initial_value(options[i])]
    /\ \E e \in BOOLEAN : expanded = [i \in DOMAIN options |-> e]
    /\ show_disabled \in BOOLEAN
    /\ search_mode = FALSE
    /\ search_query = << >>
    /\ current_row = 0
    /\ flat = << >>
    /\ pc = "draw"
    /\ last = Handled("none", 0, "")
    /\ pre = value
    /\ hid = {}

\* The top of the library loop (lines 321-345).
pyconfig_Draw ==
    /\ mode = "library"
    /\ pc = "draw"
    /\ IF search_mode
       THEN Redraw("search",
                Searched(pyconfig_search_options(TopLevel, search_query, value, expanded,
                                                 show_disabled), value))
       ELSE Redraw("flatten",
                Flattened(pyconfig_flatten_options(TopLevel, value, expanded, show_disabled),
                          expanded))

\* What the library's edit_option or edit_multiple_choice_option can leave.
pyconfig_EditInputs(opt) ==
    IF opt.option_type = "multiple_choice"
    THEN {PyNone} \cup { PyInt(k - 1) : k \in DOMAIN opt.choices }
    ELSE EditInputs(opt)

\* curses.KEY_ENTER, in either mode: pyconfig.handle_enter
pyconfig_KeyEnter ==
    /\ KeyDispatch
    /\ mode = "library"
    /\ IF Len(flat) = 0
       THEN AfterEnter(0, Entered(value, expanded, ""))
       ELSE \E input \in pyconfig_EditInputs(options[flat[current_row + 1]]) :
               AfterEnter(flat[current_row + 1],
                          pyconfig_handle_enter(flat[current_row + 1], input, value,
                                                expanded, search_mode))

\* The menu after handle_force_enable, r being its outcome.
AfterForce(sel, r) ==
    /\ value' = r.vals
    /\ pc' = IF r.err = "" THEN "draw" ELSE "crashed"
    /\ last' = Handled("force_" \o r.outcome, sel, r.err)
    /\ pre' = value
    /\ UNCHANGED << mode, exprVars, options, expanded, show_disabled, search_mode,
                    search_query, current_row, flat >>
    /\ hid' = Remember

\* key == self.force_enable_key, in either mode: handle_force_enable
KeyForceEnable ==
    /\ KeyDispatch
    /\ mode = "library"
    /\ IF Len(flat) = 0
       THEN AfterForce(0, Forced(value, "ignored", ""))
       ELSE AfterForce(flat[current_row + 1],
                       handle_force_enable(flat[current_row + 1], value))

\* flatten_options_key_value of src/library/pyconfig.py (lines 543-554).
RECURSIVE pyconfig_flatten_options_key_value(_, _)
pyconfig_flatten_options_key_value(options_list, vals) ==
    IF Len(options_list) = 0 THEN KeyValues(<< >>, "")
    ELSE key_value_update(
             IF options[Head(options_list)].option_type = "group"
             THEN key_value_group(
                      pyconfig_flatten_options_key_value(Children(Head(options_list)), vals),
                      pyconfig_is_option_available(Head(options_list), vals))
             ELSE key_value_option(
                      options[Head(options_list)],
                      value_to_save(options[Head(options_list)], vals[Head(options_list)]),
                      pyconfig_is_option_available(Head(options_list), vals)),
             pyconfig_flatten_options_key_value(Tail(options_list), vals))

\* key == self.save_key, outside search mode: save_config
pyconfig_KeySave ==
    /\ KeyDispatch
    /\ mode = "library"
    /\ ~search_mode
    /\ AfterSave(pyconfig_flatten_options_key_value(TopLevel, value))

NextL ==
    \/ pyconfig_Draw
    \/ KeyResize
    \/ KeyUpDown
    \/ pyconfig_KeyEnter
    \/ KeyForceEnable
    \/ pyconfig_KeySave
    \/ KeyCollapse
    \/ KeySearch
    \/ KeyQuery
    \/ KeyQuit

SpecL == InitL /\ [][NextL]_vars

\* Both programs.
InitEngines == InitX \/ InitL

NextEngines == NextX \/ NextL

SpecEngines == InitEngines /\ [][NextEngines]_vars

----------------------------------------------------------------------------
(* Claims about force-enable in src/library/pyconfig.py (checked under     *)
(* SpecL) and about both engines (checked under SpecEngines).              *)

\* handle_force_enable ran on option o (the force-enable key was pressed on
\* its row).
ForceKeyOn(o) == mode = "library" /\ last.sel = o /\ last.op \in
    {"force_forced", "force_restricted", "force_ignored", "force_raised"}

\* force_enable_option(o) ran and returned without raising.
ForceEnabled(o) ==
    mode = "library" /\ last.op = "force_forced" /\ last.sel = o /\ last.err = ""

\* The dependency of o is exactly "!X" for the option x.
RequiresOff(o, x) == options[o].dependencies = << <<"!">> \o options[x].name >>

\* The name a clause refers to.
clause_key(dependency_string) ==
    IF Len(dependency_string) > 0 /\ dependency_string[1] = "!" THEN Tail(dependency_string)
    ELSE IF matches_key_value(dependency_string) THEN match_key(dependency_string)
    ELSE dependency_string

\* p is named by a clause of o.
Prerequisite(o, p) ==
    \E k \in DOMAIN options[o].dependencies :
        clause_key(options[o].dependencies[k]) = options[p].name

\* o = x's dependent through a chain of at most n prerequisite links that ends
\* in an option whose dependency is "!X".
RECURSIVE ChainRequiresOff(_, _, _)
ChainRequiresOff(o, x, n) ==
    \/ RequiresOff(o, x)
    \/ n > 0 /\ \E p \in Opts : Prerequisite(o, p) /\ ChainRequiresOff(p, x, n - 1)

\* C5: after force_enable_option ran on an option whose dependency is "!X",
\* X not external, X.value is False, whatever X held before (True, False or
\* None).
C5_ForceEnableTurnsOff ==
    \A o, x \in Opts :
        (ForceEnabled(o) /\ RequiresOff(o, x) /\ ~options[x].external)
        => value[x] = PyFalse

\* C6: when X is external, force-enable on an option whose dependency is
\* "!X", directly or through a chain of prerequisites, ends with the
\* externally-restricted outcome and leaves X.value as it was.
C6_ExternalRestricts ==
    \A o, x \in Opts :
        (ForceKeyOn(o) /\ options[x].external /\ ChainRequiresOff(o, x, Len(options)))
        => (last.op = "force_restricted" /\ value[x] = pre[x])

\* C7: after force_enable_option returned without error on an option whose
\* clauses all name non-external options somewhere in the tree, the option
\* is available.
C7_ForceEnableSatisfies ==
    \A o \in Opts :
        ( /\ ForceEnabled(o)
          /\ \A k \in DOMAIN options[o].dependencies :
                \E p \in Opts :
                    /\ clause_key(options[o].dependencies[k]) = options[p].name
                    /\ ~options[p].external )
        => truthy(pyconfig_is_option_available(o, value).val)

InEngine == mode \in {"pyconfix", "library"}

\* option.default, or its index in choices, written out.
DefaultOf(i) ==
    IF options[i].option_type = "multiple_choice"
    THEN PyInt(choices_index(options[i], options[i].default))
    ELSE options[i].default

C9_ExternalNeverChanged ==
    \A i \in Opts : (InEngine /\ options[i].external) => value[i] = pre[i]

----------------------------------------------------------------------------
(* Claims about availability (checked under SpecX).  Both resolvers are    *)
(* evaluated on the same tree: the one of pyconfix.is_option_available and *)
(* the one of OptionManager.is_option_available.                           *)

\* The clauses of a raw dependency string that is a conjunction.
RefClauses(i) == split_strip_nonempty(options[i].dependencies, <<"&", "&">>)

RefClauseName(c) == IF c[1] = "!" THEN Tail(c) ELSE c

\* A clause NAME or !NAME whose NAME is, letter for letter, the name of an
\* option that is neither a group nor a multiple_choice option.
PlainClause(c) ==
    \E k \in Opts : /\ options[k].name = RefClauseName(c)
                    /\ options[k].option_type \notin {"group", "multiple_choice"}

RefClauseHolds(c) ==
    LET k == CHOOSE k \in Opts : options[k].name = RefClauseName(c)
    IN  IF c[1] = "!" THEN ~truthy(value[k]) ELSE truthy(value[k])

RefAvailable(i) == \A n \in DOMAIN RefClauses(i) : RefClauseHolds(RefClauses(i)[n])

PlainDependencies(i) ==
    /\ Len(options[i].dependencies) > 0
    /\ \A n \in DOMAIN RefClauses(i) : PlainClause(RefClauses(i)[n])

\* a: the outcome of is_option_available(i)
AvailableAsExpected(i, a) ==
    /\ Len(options[i].dependencies) = 0 => a = Return(PyTrue)
    /\ PlainDependencies(i) => (a.err = "" /\ (truthy(a.val) <=> RefAvailable(i)))

RequiresCurrentChoice(v, m) ==
    /\ options[m].option_type = "multiple_choice"
    /\ value[m] # PyNone
    /\ options[v].dependencies =
          upper(options[m].name) \o <<"=", "=", "'">> \o options[m].choices[value[m].n + 1] \o <<"'">>

\* C13: identifiers are resolved case-insensitively over the whole tree,
\* groups included: an option whose dependency is LOG_LEVEL=='DEBUG' is
\* available while the current choice of the option named Log_Level is
\* 'DEBUG', for both resolvers.
C13_CaseInsensitiveResolution ==
    \A v, m \in Opts :
        (mode = "pyconfix" /\ RequiresCurrentChoice(v, m)) =>
            /\ truthy(is_option_available(v, value).val)
            /\ truthy(OptionManager_is_option_available(v, value).val)

\* C13, for the resolver of src/pyconfix.py alone.
C13_PyconfixResolution ==
    \A v, m \in Opts :
        (mode = "pyconfix" /\ RequiresCurrentChoice(v, m)) =>
            truthy(is_option_available(v, value).val)

----------------------------------------------------------------------------
(* The pipeline on arbitrary text: the same three steps, started on every  *)
(* text of up to MaxFragments fragments and on an empty and a non-empty    *)
(* environment.                                                            *)

MaxFragments == 4

Fragments ==
    { <<"A">>, <<"B">>, <<"1">>, <<".">>, <<"'">>, <<" ">>, <<"!">>, <<"&", "&">>, <<"|", "|">>, <<"=", "=">>, <<"=">>, <<"<">>, <<"(">>, <<")">>, <<"#">> }

RECURSIVE TextsOf(_)
TextsOf(n) ==
    IF n = 0 THEN { << >> }
    ELSE LET shorter == TextsOf(n - 1)
         IN  shorter \cup { t \o f : t \in shorter, f \in Fragments }

RawEnvs == { << >>, [ n \in {nA, nB} |-> IF n = nA THEN PyTrue ELSE PyStr(<<"x">>) ] }

\* The test "Floating point with leading dot" (src/test.py line 176) and two
\* variations of it.
LeadingDotTexts ==
    { <<".", "5", " ", "=", "=", " ", "0", ".", "5">>,
      <<"0", ".", "5", " ", "=", "=", " ", ".", "5">>,
      <<".", "5", " ", "=", "=", " ", "5">> }

InitRaw ==
    /\ mode = "expr"
    /\ \E text \in TextsOf(MaxFragments) \cup LeadingDotTexts, env \in RawEnvs :
          src = [text |-> text, env |-> env, expect |-> NoResult, compiled |-> << >>]
    /\ stage = "src"
    /\ tokens = << >>
    /\ postfix = << >>
    /\ result = NoResult
    /\ options = << >>
    /\ value = << >>
    /\ expanded = << >>
    /\ show_disabled = FALSE
    /\ search_mode = FALSE
    /\ search_query = << >>
    /\ current_row = 0
    /\ flat = << >>
    /\ pc = "none"
    /\ last = [op |-> "none", sel |-> 0, err |-> ""]
    /\ pre = << >>
    /\ hid = {}

SpecRaw == InitRaw /\ [][NextExpr]_vars

----------------------------------------------------------------------------
(* Claims about the pipeline on arbitrary text (checked under SpecRaw;     *)
(* C15 under SpecExpr).                                                    *)

\* The stack discipline of a postfix list, by operand count alone: "not" or
\* "binary" at the first operator that lacks operands, "extra" when the
\* tokens do not leave exactly one value, "ok" otherwise.
RECURSIVE RefStackKind(_, _, _)
RefStackKind(toks, k, depth) ==
    IF k > Len(toks) THEN (IF depth = 1 THEN "ok" ELSE "extra")
    ELSE IF toks[k] = tNot
    THEN (IF depth = 0 THEN "not" ELSE RefStackKind(toks, k + 1, depth))
    ELSE IF toks[k] \in BinaryTokens
    THEN (IF depth < 2 THEN "binary" ELSE RefStackKind(toks, k + 1, depth - 1))
    ELSE RefStackKind(toks, k + 1, depth + 1)

\* The identifiers of a postfix list that the environment does not define.
MissingNames(toks, env) == { tok \in resolved_tokens(toks) : upper(tok) \notin DOMAIN env }

\* C14: a name that is absent resolves to a missing, falsy value and is no
\* error: the evaluation of a compiled expression that contains such a name
\* returns a value whatever operator is applied to it, and 'A && B' over the
\* empty environment is false.
C14_MissingNameNeverRaises ==
    /\ (stage = "value" /\ RefStackKind(postfix, 1, 0) = "ok"
        /\ MissingNames(postfix, src.env) # {}) => result.err = ""
    /\ (stage = "value" /\ postfix = << nA, nB, tAnd >> /\ src.env = << >>)
          => result = Return(PyFalse)

\* C14, for every operator but the ordering comparisons.
C14_MissingNameFalsyUnlessOrdered ==
    /\ (stage = "value" /\ RefStackKind(postfix, 1, 0) = "ok"
        /\ MissingNames(postfix, src.env) # {}
        /\ \A k \in DOMAIN postfix : postfix[k] \notin {tGt, tLt, tGe, tLe})
          => result.err = ""
    /\ (stage = "value" /\ postfix = << nA, nB, tAnd >> /\ src.env = << >>)
          => result = Return(PyFalse)

\* The value the harness gives an operand token.
RefOperand(tok) ==
    IF str_isdigit(tok) THEN PyInt(parse_int(tok))
    ELSE IF tok[1] = "'" THEN PyStr(SubSeq(tok, 2, Len(tok) - 1))
    ELSE env_getter(src.env, tok)

\* A state in which 'left op right' has been evaluated, op being == or !=.
EqualityEvaluated ==
    /\ stage = "value" /\ Len(postfix) = Len(<< nA, nB, tEq >>)
    /\ Last(postfix) \in {tEq, tNe}
    /\ Front(postfix) = SelectSeq(Front(postfix), is_operand_token)

CrossTypes == {"bool", "int", "str", "none"}

\* C15: == and != never raise, and on operands of different types among
\* boolean, integer, string and missing, == is false and != is true.
C15_CrossTypeUnequal ==
    EqualityEvaluated =>
        LET l == RefOperand(postfix[1])
            r == RefOperand(postfix[2])
        IN  /\ result.err = ""
            /\ (l.t \in CrossTypes /\ r.t \in CrossTypes /\ l.t # r.t)
                  => result.val = PyBool(Last(postfix) = tNe)

\* C15 with boolean against integer set apart: a boolean and an integer
\* compare by number (True == 1, False == 0), every other pair of different
\* types is unequal, and nothing raises.
C15_CrossTypeUnequalButNumbers ==
    EqualityEvaluated =>
        LET l == RefOperand(postfix[1])
            r == RefOperand(postfix[2])
        IN  /\ result.err = ""
            /\ (l.t \in CrossTypes /\ r.t \in CrossTypes /\ l.t # r.t)
                  => IF {l.t, r.t} = {"bool", "int"}
                     THEN result.val = PyBool((l.n = r.n) <=> (Last(postfix) = tEq))
                     ELSE result.val = PyBool(Last(postfix) = tNe)

\* C15 witness: A == 'x' evaluated to false with A = 1.
C15_Witness ==
    /\ EqualityEvaluated
    /\ postfix = << nA, <<"'", "x", "'">>, tEq >>
    /\ src.env[nA] = PyInt(1)
    /\ result = Return(PyFalse)

RefMessage(kind) ==
    CASE kind = "not" -> "Missing operand for '!'"
      [] kind = "binary" -> "Missing operands"
      [] kind = "extra" -> "Invalid expression: extra items remain on the stack"
      [] OTHER -> ""

OrderingTokens == {tGt, tLt, tGe, tLe}

RECURSIVE RefNested(_, _, _)
RefNested(toks, k, open) ==
    IF k > Len(toks) THEN open = 0
    ELSE IF toks[k] = tOpen THEN RefNested(toks, k + 1, open + 1)
    ELSE IF toks[k] = tClose THEN open > 0 /\ RefNested(toks, k + 1, open - 1)
    ELSE RefNested(toks, k + 1, open)

\* shunting_yard has run on the tokens.
Compiled == stage \in {"postfix", "value"} \/ (stage = "error" /\ result.err # "Unexpected character")

\* C17: shunting_yard raises the mismatched-parentheses error for every
\* token list with a ')' that has no '(' before it or a '(' that is never
\* closed, and returns a postfix list for every token list whose
\* parentheses are properly nested.
C17_MismatchedParentheses ==
    Compiled =>
        ((stage = "error" /\ result.err = "Mismatched parentheses")
            <=> ~RefNested(tokens, 1, 0))

\* C17 witness: 'A&&B)' was compiled and raised.
C17_Witness ==
    /\ stage = "error"
    /\ tokens = << nA, tAnd, nB, tClose >>
    /\ result.err = "Mismatched parentheses"

\* C18: compile("!"), that is shunting_yard(tokenize("!")), raises a
\* missing-operand error.
C18_CompileNotRaises ==
    (src.text = <<"!">> /\ Compiled) => (stage = "error" /\ result.err = "Missing operand for '!'")

\* C18 with the error where the code raises it: "!" compiles to the postfix
\* list ['!'] without an error, and evaluating that list raises the
\* missing-operand error.
C18_EvaluateNotRaises ==
    (src.text = <<"!">> /\ Compiled) =>
        /\ stage # "error"
        /\ stage \in {"postfix", "value"} => postfix = << tNot >>
        /\ stage = "value" => result.err = "Missing operand for '!'"

\* C18 witness: "!" compiled and evaluated.
C18_Witness ==
    /\ src.text = <<"!">> /\ stage = "value"
    /\ result.err = "Missing operand for '!'"

\* Position k of a text is outside a quoted string: an even number of
\* quotes precedes it.
OutsideQuote(text, k) == Cardinality({ j \in 1..(k - 1) : text[j] = "'" }) % 2 = 0

\* The characters the claim lists, the dot apart.
ListedCharacter(c) ==
    \/ isspace(c) \/ isdigit(c) \/ isalpha(c)
    \/ c \in {"_", "'", "(", ")"} \cup OperatorChars

FollowedByDigit(text, k) == k < Len(text) /\ isdigit(text[k + 1])

\* The first position of the run of digits that ends just before k (k itself
\* when no digit precedes k).
DigitsStart(text, k) ==
    LET others == { j \in 1..(k - 1) : ~isdigit(text[j]) }
    IN  IF others = {} THEN 1 ELSE (CHOOSE j \in others : \A i \in others : i <= j) + 1

\* The dot at k directly follows the digits that begin a numeric literal:
\* digits that continue neither an identifier nor a literal that has a dot.
EndsLiteralDigits(text, k) ==
    LET j == DigitsStart(text, k)
    IN  /\ j < k
        /\ j > 1 => ~(isalnum(text[j - 1]) \/ text[j - 1] \in {"_", "."})

StrayCharacter(text, k) ==
    /\ OutsideQuote(text, k)
    /\ ~ListedCharacter(text[k])
    /\ ~(text[k] = "." /\ FollowedByDigit(text, k))

StrayCharacterOrDot(text, k) ==
    /\ StrayCharacter(text, k)
    /\ ~(text[k] = "." /\ EndsLiteralDigits(text, k))

\* C19: tokenize raises the unexpected-character error for every input
\* with, outside a quoted string, a character that is not whitespace, a
\* digit, a letter, an underscore, a dot directly followed by a digit, a
\* quote, one of & | ! = > < or a parenthesis; on every other input it
\* returns a token list.
C19_UnexpectedCharacter ==
    stage # "src" =>
        (result.err = "Unexpected character"
            <=> \E k \in DOMAIN src.text : StrayCharacter(src.text, k))

\* C19 with the dot that ends the digits of a numeric literal allowed as
\* well ('1.' is the token '1.').
C19_UnexpectedCharacterOrDot ==
    stage # "src" =>
        (result.err = "Unexpected character"
            <=> \E k \in DOMAIN src.text : StrayCharacterOrDot(src.text, k))

\* C19 witness: 'A&&#' raised.
C19_Witness ==
    /\ src.text = <<"A", "&", "&", "#">>
    /\ stage = "error"
    /\ result.err = "Unexpected character"


\* ---------------------------------------------------------------------
\* Multiple-choice values.

\* v is null or an integer index into the choices of opt (a Python bool is an
\* integer: True indexes as 1, False as 0).
ValidChoiceValue(opt, v) ==
    \/ v = PyNone
    \/ /\ v.t \in {"int", "bool"}
       /\ 0 <= v.n
       /\ v.n < Len(opt.choices)

\* C20: in every state reachable through parsing, saved-config loading, user
\* edits, visibility passes and force-enabling (name=value-list clauses
\* included), the value of a multiple_choice option is either null or an
\* integer index i with 0 <= i < number of choices.
C20_ChoiceValueIsIndex ==
    mode \in {"pyconfix", "library"} =>
        \A i \in DOMAIN options :
            options[i].option_type = "multiple_choice"
                => ValidChoiceValue(options[i], value[i])

----------------------------------------------------------------------------
(* A client of the engines' methods, as the OptionManager tests of         *)
(* src/test.py are: it builds an engine from a schema, then assigns option *)
(* values and calls find_option, reset_dependent_options and               *)
(* force_enable_option directly.                                           *)

\* What a call did: the method, the option it was given (or found), its other
\* argument and the exception it raised.
Called(op, sel, arg, err) == [op |-> op, sel |-> sel, err |-> err, arg |-> arg]

\* pyconfix.find_option (src/pyconfix.py), line for line the method of
\* OptionManager.
pyconfix_find_option(name, options_list, depth) ==
    OptionManager_find_option(name, options_list, depth)

\* The trees the client builds: the tests' own, the one with a nested
\* multiple_choice option, and the library's trees of up to four options.
\* Two options without a default (ConfigOption's default=None) whose
\* dependencies name each other.
SchemaNull ==
    << OptionData(<<"P">>, "bool", PyNone, <<"!", "Q">>, << >>, << >>),
       OptionData(<<"Q">>, "bool", PyNone, <<"!", "P">>, << >>, << >>) >>

\* A group with no options of its own.
SchemaEmpty ==
    << OptionData(<<"E">>, "group", PyNone, << >>, << >>, << >>),
       OptionData(<<"X">>, "bool", PyTrue, << >>, << >>, << >>) >>

ApiSchemas ==
    { parse_options(SchemaTest, 0, << >>, 0),
      parse_options(SchemaCase, 0, << >>, 0),
      parse_options(SchemaNull, 0, << >>, 0),
      parse_options(SchemaEmpty, 0, << >>, 0) }

pyconfig_ApiSchemas ==
    { << pyconfig_ExternalOff >> \o pyconfig_parse_options(SchemaRestricted, 0, << >>, 1),
      pyconfig_parse_options(SchemaValues, 0, << >>, 0),
      pyconfig_parse_options(SchemaChoice, 0, << >>, 0),
      pyconfig_parse_options(SchemaCycle, 0, << >>, 0) }

InitApi ==
    /\ mode \in {"pyconfix_api", "library_api"}
    /\ src = [text |-> << >>, env |-> << >>, expect |-> NoResult, compiled |-> << >>]
    /\ stage = "none"
    /\ tokens = << >>
    /\ postfix = << >>
    /\ result = NoResult
    /\ options \in IF mode = "pyconfix_api" THEN ApiSchemas
                   ELSE pyconfig_ApiSchemas
    /\ value = [i \in DOMAIN options |-> initial_value(options[i])]
    /\ expanded = [i \in DOMAIN options |-> FALSE]
    /\ show_disabled = FALSE
    /\ search_mode = FALSE
    /\ search_query = << >>
    /\ current_row = 0
    /\ flat = << >>
    /\ pc = "client"
    /\ last = Called("none", 0, PyNone, "")
    /\ pre = value
    /\ hid = {}

ApiDispatch == mode \in {"pyconfix_api", "library_api"} /\ pc = "client"

\* The client after a call that left the values vals and raised e ("" when it
\* returned).
AfterCall(vals, call) ==
    /\ value' = vals
    /\ pc' = IF call.err = "" THEN "client" ELSE "crashed"
    /\ last' = call
    /\ pre' = value
    /\ UNCHANGED << mode, exprVars, options, expanded, show_disabled, search_mode,
                    search_query, current_row, flat >>
    /\ hid' = Remember

\* The values a client gives an option of each kind (None: none given).
ApiInputs(opt) ==
    IF opt.option_type = "bool" THEN {PyNone, PyTrue, PyFalse}
    ELSE IF opt.option_type = "multiple_choice"
    THEN {PyNone} \cup { PyInt(k - 1) : k \in DOMAIN opt.choices }
    ELSE IF opt.option_type = "group" THEN {PyNone}
    ELSE EditInputs(opt)

\* option.value = v, as test_option_manager_not_available does.
ApiAssign ==
    /\ ApiDispatch
    /\ \E i \in Opts : \E v \in ApiInputs(options[i]) :
          /\ options[i].option_type # "group"
          /\ AfterCall([value EXCEPT ![i] = v], Called("assign", i, v, ""))

\* The names a client looks up: every option's name as written, in upper and
\* in lower case, and a name no option has.
FindNames ==
    UNION { { options[i].name, upper(options[i].name), lower(options[i].name) } : i \in Opts }
    \cup { <<"Z", "Z">> }

FoundBy(name, found) == Called("find", found.index, name, found.err)

\* find_option(name) of the engine in use.
ApiFind ==
    /\ ApiDispatch
    /\ \E name \in FindNames :
          AfterCall(value,
              IF mode = "pyconfix_api"
              THEN FoundBy(name, pyconfix_find_option(name, << >>, 0))
              ELSE FoundBy(name, [index |-> find_option(name, TopLevel), err |-> ""]))

ResetBy(i, r) == AfterCall(r.vals, Called("reset", i, PyNone, r.err))

\* reset_dependent_options(option, self.options) of the engine in use.
ApiReset ==
    /\ ApiDispatch
    /\ \E i \in Opts :
          IF mode = "pyconfix_api"
          THEN ResetBy(i, reset_dependent_options(i, TopLevel, value, 0))
          ELSE ResetBy(i, pyconfig_reset_dependent_options(i, TopLevel, value, 0))

ForcedBy(i, v, r) == AfterCall(r.vals, Called("force", i, v, r.err))

\* force_enable_option(option, set_value) of the library engine.
ApiForce ==
    /\ ApiDispatch
    /\ mode = "library_api"
    /\ \E i \in Opts : \E v \in ApiInputs(options[i]) :
          ForcedBy(i, v, force_enable_option(i, v, value, 0))

NextApi ==
    \/ ApiAssign
    \/ ApiFind
    \/ ApiReset
    \/ ApiForce

SpecApi == InitApi /\ [][NextApi]_vars

----------------------------------------------------------------------------
(* Claims about the methods called directly (checked under SpecApi).       *)

\* force_enable_option(o, v) was called and returned.
ForceReturned(o) ==
    mode = "library_api" /\ last.op = "force" /\ last.sel = o /\ last.err = ""

\* C21: force_enable_option(option, v) leaves option.value equal to v whenever
\* v is given (False and index 0 included); with no v it leaves True for a
\* bool option, the index of the default in choices for a multiple_choice
\* option, and the default for any other kind.
C21_ForceSetsValue ==
    \A o \in Opts :
        ForceReturned(o) =>
            value[o] = IF last.arg # PyNone THEN last.arg
                       ELSE IF options[o].option_type = "bool" THEN PyTrue
                       ELSE IF options[o].option_type = "multiple_choice"
                       THEN PyInt(choices_index(options[o], options[o].default))
                       ELSE options[o].default

\* C21 witness: False was given to an option that held True, or index 0 to a
\* multiple_choice option that held index 1.
C21_Witness ==
    \E o \in Opts :
        /\ ForceReturned(o)
        /\ \/ last.arg = PyFalse /\ pre[o] = PyTrue /\ value[o] = PyFalse
           \/ /\ last.arg = PyInt(0) /\ options[o].option_type = "multiple_choice"
              /\ pre[o] = PyInt(1) /\ value[o] = PyInt(0)

\* The first option in depth-first order (the arena's order) whose name is
\* name ignoring letter case; 0 when there is none.
RefFind(name) ==
    IF \E i \in Opts : upper(options[i].name) = upper(name)
    THEN CHOOSE i \in Opts :
            /\ upper(options[i].name) = upper(name)
            /\ \A j \in Opts : upper(options[j].name) = upper(name) => i <= j
    ELSE 0

\* find_option(name) was called and returned.
FindReturned == last.op = "find" /\ last.err = ""

\* C22: find_option(name) returns the first option in depth-first order,
\* groups searched at every depth, whose name equals name ignoring letter
\* case, and not-found when no option has that name.
C22_FindDepthFirstIgnoringCase ==
    FindReturned => last.sel = RefFind(last.arg)

\* What the code does: pyconfix.find_option finds the first option in
\* depth-first order whose name is name letter for letter; the library's
\* find_option finds such an option in the top-level list only.
C22_FindExactName ==
    FindReturned =>
        /\ last.sel # 0 => options[last.sel].name = last.arg
        /\ mode = "library_api" /\ last.sel # 0 => options[last.sel].parent = 0
        /\ mode = "pyconfix_api" /\ last.sel = 0 =>
              \A i \in Opts : options[i].name # last.arg

----------------------------------------------------------------------------
(* Claims about what the operations leave alone (checked under             *)
(* SpecEngines and SpecApi).                                               *)

----------------------------------------------------------------------------
(* ConfigOption.__init__ of src/pyconfix.py (and, with the same checks,    *)
(* src/pyconfig.py), called as the ConfigOption tests of src/test.py call  *)
(* it.                                                                     *)

OptionTypes == {"bool", "int", "string", "multiple_choice", "action", "group"}

\* The outcome of a construction: the option and its value, or the error.
Constructed(option, v) == [err |-> "", option |-> << option >>, value |-> << v >>]

NotConstructed(e) == [err |-> e, option |-> << >>, value |-> << >>]

\* Line 210 on a dependency string that is not empty, compiled being
\* shunting_yard(tokenize(dependencies)); lines 198-209.
init_compiled(name, option_type, default, dependencies, choices, compiled) ==
    IF compiled.err # "" THEN NotConstructed(compiled.err)
    ELSE Constructed(ConfigOption(name, option_type, default, FALSE, dependencies,
                                  choices, 0), default)

\* shunting_yard of the outcome of tokenize.
compile_tokens(toks) ==
    IF toks.err # "" THEN toks ELSE shunting_yard(toks.val)

\* ConfigOption.__init__ without the check of line 195 (the default of a
\* multiple_choice option).
ConfigOption_init_any_default(name, option_type, default, dependencies, choices) ==
    IF \E k \in DOMAIN name : isspace(name[k])
    THEN NotConstructed("Option name cannot contain white space")
    ELSE IF option_type \notin OptionTypes
    THEN NotConstructed("Invalid option type")
    ELSE IF Len(dependencies) = 0
    THEN Constructed(ConfigOption(name, option_type, default, FALSE, dependencies,
                                  choices, 0), default)
    ELSE init_compiled(name, option_type, default, dependencies, choices,
                       compile_tokens(tokenize(dependencies)))

\* ConfigOption.__init__ (lines 189-210).
ConfigOption_init(name, option_type, default, dependencies, choices) ==
    IF \E k \in DOMAIN name : isspace(name[k])
    THEN NotConstructed("Option name cannot contain white space")
    ELSE IF option_type \notin OptionTypes
    THEN NotConstructed("Invalid option type")
    ELSE IF option_type = "multiple_choice"
            /\ ~(default.t = "str" /\ InSeq(default.s, choices))
    THEN NotConstructed("Invalid default for multiple_choice option")
    ELSE IF Len(dependencies) = 0
    THEN Constructed(ConfigOption(name, option_type, default, FALSE, dependencies,
                                  choices, 0), default)
    ELSE init_compiled(name, option_type, default, dependencies, choices,
                       compile_tokens(tokenize(dependencies)))

\* The arguments the tests and the schemas give: names with and without
\* white space, kinds in and out of the list, defaults of every type, and
\* dependency strings that compile and that do not.
ConstructNames == { <<"A">>, <<"A", " ", "B">>, <<"A", "\t">>, <<"T", "e", "s", "t", "O", "p", "t">> }

ConstructTypes == OptionTypes \cup {"invalid", "Bool"}

ConstructDefaults == { PyNone, PyTrue, PyInt(1), PyStr(<<"x">>), PyStr(<<"a">>) }

ConstructChoices == { << >>, << <<"a">>, <<"b">> >> }

ConstructDependencies ==
    { << >>,
      <<"A", " ", "&", "&", " ", "B">>,
      <<"A", " ", "#">>,
      <<"(", "A">>,
      <<"A", ")">>,
      <<"1", ".">> }

InitConstruct ==
    /\ mode = "construct"
    /\ \E name \in ConstructNames, option_type \in ConstructTypes,
          default \in ConstructDefaults, choices \in ConstructChoices,
          dependencies \in ConstructDependencies :
          src = [ text |-> dependencies, env |-> << >>, expect |-> NoResult,
                  compiled |-> << >>, name |-> name, option_type |-> option_type,
                  default |-> default, choices |-> choices ]
    /\ stage = "none"
    /\ tokens = << >>
    /\ postfix = << >>
    /\ result = NoResult
    /\ options = << >>
    /\ value = << >>
    /\ expanded = << >>
    /\ show_disabled = FALSE
    /\ search_mode = FALSE
    /\ search_query = << >>
    /\ current_row = 0
    /\ flat = << >>
    /\ pc = "construct"
    /\ last = Called("none", 0, PyNone, "")
    /\ pre = << >>
    /\ hid = {}

\* The test after ConfigOption(...) returned or raised, r being the outcome.
AfterConstruct(r) ==
    /\ options' = r.option
    /\ value' = r.value
    /\ expanded' = [ i \in DOMAIN r.option |-> FALSE ]
    /\ pc' = IF r.err = "" THEN "done" ELSE "crashed"
    /\ last' = Called("construct", Len(r.option), PyNone, r.err)
    /\ pre' = value
    /\ UNCHANGED << mode, exprVars, show_disabled, search_mode, search_query,
                    current_row, flat >>
    /\ hid' = Remember

Construct ==
    /\ mode = "construct"
    /\ pc = "construct"
    /\ AfterConstruct(ConfigOption_init(src.name, src.option_type, src.default,
                                        src.text, src.choices))

SpecConstruct == InitConstruct /\ [][Construct]_vars

----------------------------------------------------------------------------
(* Claims about ConfigOption.__init__ (checked under SpecConstruct).       *)

ConstructorRan == mode = "construct" /\ last.op = "construct"

\* The three conditions the claim lists.
ListedRejection ==
    \/ \E k \in DOMAIN src.name : isspace(src.name[k])
    \/ src.option_type \notin {"bool", "int", "string", "multiple_choice", "action", "group"}
    \/ /\ src.option_type = "multiple_choice"
       /\ \A k \in DOMAIN src.choices : PyStr(src.choices[k]) # src.default

\* The dependency string, when there is one, does not compile: it has a stray
\* character or its parentheses are not properly nested.
DependenciesRejected ==
    \/ \E k \in DOMAIN src.text : StrayCharacterOrDot(src.text, k)
    \/ ~RefNested(tokenize(src.text).val, 1, 0)

\* The option was created, with the given fields and value equal to default.
ConstructedAsGiven ==
    /\ last.err = ""
    /\ Len(options) = 1
    /\ options[1].name = src.name
    /\ options[1].option_type = src.option_type
    /\ options[1].default = src.default
    /\ value = << src.default >>

\* No option was created and an error was raised.
ConstructionFailed == last.err # "" /\ options = << >> /\ value = << >>

\* C24: constructing a ConfigOption fails with an error, and no option is
\* created, when the name contains a whitespace character, when the kind is
\* not one of bool, int, string, multiple_choice, action, group, or when the
\* kind is multiple_choice and the default is not one of the choices; in
\* every other case construction succeeds with value equal to default.
C24_ConstructionChecks ==
    ConstructorRan =>
        IF ListedRejection THEN ConstructionFailed ELSE ConstructedAsGiven

\* C24 with the fourth way to fail: the construction also fails, with the
\* compile error, when the dependency string does not compile.
C24_ConstructionChecksOrCompile ==
    ConstructorRan =>
        IF ListedRejection \/ DependenciesRejected
        THEN ConstructionFailed
        ELSE ConstructedAsGiven

\* C24 witness: a multiple_choice option whose default is not a choice was
\* refused, or one whose default is a choice was created with a compiled
\* dependency.
C24_Witness ==
    /\ ConstructorRan
    /\ src.option_type = "multiple_choice"
    /\ src.choices = << <<"a">>, <<"b">> >>
    /\ \/ src.default = PyStr(<<"x">>) /\ ConstructionFailed
       \/ /\ src.default = PyStr(<<"a">>) /\ ConstructedAsGiven
          /\ options[1].postfix_dependencies = << nA, nB, tAnd >>

----------------------------------------------------------------------------
(* Claims about numeric literals (checked under SpecRaw).                  *)

\* The stages tokenize, shunting_yard and evaluate_postfix_expr left behind.
Tokenized == stage \in {"tokens", "postfix", "value"}

Shunted == stage \in {"postfix", "value"}

\* C25: a numeric literal may begin with a dot.  tokenize('.5 == 0.5')
\* yields exactly the tokens '.5', '==', '0.5'; shunting_yard takes '.5' as an
\* operand; the evaluator reads it as the number 0.5 (not 5), so that
\* '.5 == 0.5' and '0.5 == .5' evaluate to True and '.5 == 5' to False.
C25_LeadingDotLiteral ==
    /\ src.text = <<".", "5", " ", "=", "=", " ", "0", ".", "5">> =>
          /\ stage # "error"
          /\ Tokenized => tokens = << <<".", "5">>, tEq, <<"0", ".", "5">> >>
          /\ Shunted => postfix = << <<".", "5">>, <<"0", ".", "5">>, tEq >>
          /\ stage = "value" => result = Return(PyTrue)
    /\ src.text = <<"0", ".", "5", " ", "=", "=", " ", ".", "5">> =>
          /\ stage # "error"
          /\ stage = "value" => result = Return(PyTrue)
    /\ src.text = <<".", "5", " ", "=", "=", " ", "5">> =>
          /\ stage # "error"
          /\ Tokenized => tokens = << <<".", "5">>, tEq, <<"5">> >>
          /\ stage = "value" => result = Return(PyFalse)

\* C25 witness: '.5 == 0.5' was evaluated to True.
C25_Witness ==
    /\ src.text = <<".", "5", " ", "=", "=", " ", "0", ".", "5">>
    /\ stage = "value"
    /\ result = Return(PyTrue)

----------------------------------------------------------------------------
(* Claims about reset_dependent_options, the pass run on the option that   *)
(* changed (checked under SpecEngines, where handle_enter runs it after    *)
(* an edit, and under SpecApi, where the client calls it).                 *)

PyconfixTree == mode \in {"pyconfix", "pyconfix_api"}

\* reset_dependent_options(c) ran and returned: called by the client, or by
\* handle_enter, which reaches it unless the selected option is hidden or
\* external.
ResetReturned(c) ==
    /\ last.sel = c
    /\ last.err = ""
    /\ \/ ~InEngine /\ last.op = "reset"
       \/ /\ InEngine /\ last.op = "enter"
          /\ pre[c] # PyNone \/ options[c].option_type = "group"
          /\ ~options[c].external

\* The raw dependency of i has a clause that names c.
ClauseNames(i, c) ==
    IF PyconfixTree
    THEN \E n \in DOMAIN RefClauses(i) :
            upper(clause_key(RefClauses(i)[n])) = upper(options[c].name)
    ELSE Prerequisite(i, c)

\* i is available under the current values.
AvailableNow(i) ==
    IF PyconfixTree THEN truthy(is_option_available(i, value).val)
    ELSE truthy(pyconfig_is_option_available(i, value).val)

\* i has a clause naming c, or a clause naming an option that the pass has
\* restored and that is itself such a dependent (chains of at most n links).
RECURSIVE DependentOf(_, _, _)
DependentOf(i, c, n) ==
    \/ ClauseNames(i, c)
    \/ /\ n > 0
       /\ \E j \in Opts : /\ pre[j] = PyNone /\ value[j] # PyNone
                          /\ ClauseNames(i, j)
                          /\ DependentOf(j, c, n - 1)

\* C26: after reset_dependent_options(changed), every other option anywhere
\* in the tree (top level or nested in a group, whatever the group's own
\* dependency) that has a clause naming changed, and that is available
\* while its value was None, holds its default; the same for the dependents
\* of each option restored this way.
C26_DependentsRestored ==
    \A c, i \in Opts :
        ( /\ ResetReturned(c)
          /\ i # c
          /\ options[i].option_type # "group"
          /\ DependentOf(i, c, Len(options))
          /\ pre[i] = PyNone
          /\ AvailableNow(i) )
        => value[i] = DefaultOf(i)

\* C26 for the options the pass reaches: those of the top-level list.
C26_TopLevelDependentsRestored ==
    \A c, i \in Opts :
        ( /\ ResetReturned(c)
          /\ i # c
          /\ options[i].option_type # "group"
          /\ options[i].parent = 0
          /\ DependentOf(i, c, Len(options))
          /\ pre[i] = PyNone
          /\ AvailableNow(i) )
        => value[i] = DefaultOf(i)

\* C27: reset_dependent_options(changed) only restores.  Every option whose
\* value is not None when the call starts, changed included, has the same
\* value when the call returns, and an option whose value was None ends
\* either None or equal to its default (the default's index for a
\* multiple_choice option).
C27_OnlyRestores ==
    \A c, i \in Opts :
        (~InEngine /\ last.op = "reset" /\ last.sel = c /\ last.err = "") =>
            IF pre[i] # PyNone THEN value[i] = pre[i]
            ELSE value[i] \in {PyNone, DefaultOf(i)}

\* C27 witness: the call restored a hidden option to its default, left
\* another hidden option hidden, and left an edited value (one that is not
\* the default) as it was.
C27_Witness ==
    \E c, i, j, k \in Opts :
        /\ ~InEngine /\ last.op = "reset" /\ last.sel = c /\ last.err = ""
        /\ options[i].option_type # "group"
        /\ pre[i] = PyNone /\ value[i] = DefaultOf(i)
        /\ options[j].option_type # "group"
        /\ pre[j] = PyNone /\ value[j] = PyNone
        /\ pre[k] # PyNone /\ pre[k] # DefaultOf(k) /\ value[k] = pre[k]

----------------------------------------------------------------------------
(* Hidden edits (checked under SpecX).  hid holds the options whose edit   *)
(* a visibility pass has hidden.                                           *)

\* The dependency of i holds again and flatten_options, over the whole
\* tree, or handle_enter (which runs reset_dependent_options) has just run.
ShownAgain(i) ==
    /\ mode = "pyconfix"
    /\ i \in hid
    /\ last.op \in {"flatten", "enter"}
    /\ last.err = ""
    /\ WholeTreeWalked
    /\ Available(i)

\* C28: an edit does not survive hiding: an option that held an edited
\* value when a visibility pass ended with its dependency false, and whose
\* dependency is true again after a later visibility pass or value change,
\* holds its default (the default's index for multiple_choice).
C28_EditDoesNotSurviveHiding ==
    \A i \in Opts : ShownAgain(i) => value[i] = DefaultOf(i)

\* The same with the value None allowed: what is ruled out is a value that
\* is neither None nor the default.
C28_EditGone ==
    \A i \in Opts : ShownAgain(i) => value[i] \in {PyNone, DefaultOf(i)}

\* A hidden edit whose option is shown again.
C28_Witness ==
    \E i \in Opts : ShownAgain(i) /\ value[i] = DefaultOf(i)

----------------------------------------------------------------------------
(* Claims about the prerequisites force_enable_option sets in              *)
(* src/library/pyconfig.py (checked under SpecL and SpecApi).              *)

\* force_enable_option(o) ran, from the force-enable key or called by a
\* client, and returned without raising.
ForceRan(o) == ForceEnabled(o) \/ ForceReturned(o)

\* The clause dep is "X=v1,v2,..." for the option x, which is not external.
ValueClause(dep, x) ==
    /\ matches_key_value(dep)
    /\ match_key(dep) = options[x].name
    /\ options[x].option_type \in {"multiple_choice", "int", "string"}
    /\ ~options[x].external

\* The values a clause lists.
ListedValues(dep) == Range(split_strip(match_value(dep), <<",">>))

\* What a clause compares: the label of the selected choice of a
\* multiple_choice option, the text of the value of an int or string option.
CurrentText(x, v) ==
    IF options[x].option_type = "multiple_choice"
    THEN IF v.t = "int" /\ v.n \in 0 .. (Len(options[x].choices) - 1)
         THEN options[x].choices[v.n + 1]
         ELSE << "?" >>
    ELSE py_str(v)

\* The type of the values of a kind: an index, an int or a str.
KindType(x) == IF options[x].option_type = "string" THEN "str" ELSE "int"

\* C29: after force_enable_option(o), for every clause X=v1,v2,... of o
\* whose X is not external, the current value of X is one of the listed
\* values, has the type of X's kind, and is the value X held before if
\* that one was listed already.
C29_ForcedValueListedAndTyped ==
    \A o \in Opts : \A x \in Opts : \A k \in DOMAIN options[o].dependencies :
        (ForceRan(o) /\ ValueClause(options[o].dependencies[k], x)) =>
            /\ CurrentText(x, value[x]) \in ListedValues(options[o].dependencies[k])
            /\ value[x].t = KindType(x)
            /\ (CurrentText(x, pre[x]) \in ListedValues(options[o].dependencies[k])
                    => value[x] = pre[x])

\* The same without the type: the value reads as a listed one and a listed
\* value is left alone.
C29_ForcedValueListed ==
    \A o \in Opts : \A x \in Opts : \A k \in DOMAIN options[o].dependencies :
        (ForceRan(o) /\ ValueClause(options[o].dependencies[k], x)) =>
            /\ CurrentText(x, value[x]) \in ListedValues(options[o].dependencies[k])
            /\ (CurrentText(x, pre[x]) \in ListedValues(options[o].dependencies[k])
                    => value[x] = pre[x])

\* force_enable_option(o) was started, from the force-enable key or by a
\* client.
ForceStarted(o) ==
    \/ mode = "library" /\ last.op = "force_forced" /\ last.sel = o
    \/ mode = "library_api" /\ last.op = "force" /\ last.sel = o

\* o is named by one of its own clauses, or names an option that names o.
InClauseCycle(o) ==
    \/ Prerequisite(o, o)
    \/ \E p \in Opts : p # o /\ Prerequisite(o, p) /\ Prerequisite(p, o)

\* C30: force_enable_option(o) terminates on every option tree, trees whose
\* clauses refer to each other cyclically or to their own option included:
\* no call ends because the recursion ran out of depth.
C30_ForceTerminates ==
    \A o \in Opts : ForceStarted(o) => last.err # "RecursionError"

\* The same for the options that are in no clause cycle.
C30_ForceTerminatesOffCycles ==
    \A o \in Opts : (ForceStarted(o) /\ ~InClauseCycle(o)) => last.err # "RecursionError"

----------------------------------------------------------------------------
(* Termination of the cascade and of find_option (checked under SpecApi).  *)

\* reset_dependent_options(o, self.options) was started by a client.
ResetStarted(o) ==
    mode \in {"pyconfix_api", "library_api"} /\ last.op = "reset" /\ last.sel = o

\* Every non-group option has a default.
DefaultsGiven ==
    \A i \in Opts : options[i].option_type # "group" => options[i].default # PyNone

\* C31: reset_dependent_options(o) terminates on every option tree and
\* every assignment of values, cyclic and self-referring clauses and options
\* without a default included: no call ends because the recursion ran out
\* of depth.
C31_ResetTerminates ==
    \A o \in Opts : ResetStarted(o) => last.err # "RecursionError"

\* The same for the trees whose non-group options all have a default.
C31_ResetTerminatesWithDefaults ==
    \A o \in Opts : (ResetStarted(o) /\ DefaultsGiven) => last.err # "RecursionError"

\* find_option(name) of src/pyconfix.py was called with a name that no
\* option carries, in any letter case.
FindOfAbsentName ==
    /\ mode = "pyconfix_api"
    /\ last.op = "find"
    /\ \A i \in Opts : upper(options[i].name) # upper(last.arg)

\* No group is without options of its own.
GroupsHaveOptions ==
    \A g \in Opts : options[g].option_type = "group" => Len(Children(g)) > 0

\* C32: find_option(name) terminates and returns not-found for every name
\* that no option carries, on every tree, a tree with a group that has no
\* children included.
C32_FindAbsentReturnsNotFound ==
    FindOfAbsentName => (last.err = "" /\ last.sel = 0)

\* The same for the trees in which every group has options.
C32_FindAbsentInFilledGroups ==
    (FindOfAbsentName /\ GroupsHaveOptions) => (last.err = "" /\ last.sel = 0)

----------------------------------------------------------------------------
(* Claims about availability in the menu of src/pyconfix.py (checked       *)
(* under SpecX).                                                           *)

\* The dependency of i applies an ordering comparison.
OrdersOperands(i) ==
    \E k \in DOMAIN options[i].postfix_dependencies :
        options[i].postfix_dependencies[k] \in OrderingTokens

\* C33: in every reachable state is_option_available(option) returns
\* without raising for every option, also when its expression applies an
\* ordering comparison, && or || to an option that is hidden (value None).
C33_AvailabilityNeverRaises ==
    mode = "pyconfix" => \A i \in Opts : is_option_available(i, value).err = ""

\* The same for the options whose dependency has no ordering comparison.
C33_UnorderedAvailabilityNeverRaises ==
    mode = "pyconfix" =>
        \A i \in Opts : ~OrdersOperands(i) => is_option_available(i, value).err = ""

\* The group g encloses the option i, at any depth.
RECURSIVE Encloses(_, _)
Encloses(g, i) ==
    IF options[i].parent = 0 THEN FALSE
    ELSE options[i].parent = g \/ Encloses(g, options[i].parent)

\* The dependency of i has an alternative (||).
HasAlternative(i) ==
    \E k \in DOMAIN options[i].postfix_dependencies :
        options[i].postfix_dependencies[k] = tOr

\* C34: group dependencies are inherited: an option nested in a group is
\* available only if the group's own dependency expression is true, also
\* when the option's or the group's expression contains ||.  (For a group
\* of the top-level list the own expression is the whole dependency.)
C34_GroupDependencyInherited ==
    mode = "pyconfix" =>
        \A g \in Opts : \A i \in Opts :
            (options[g].parent = 0 /\ Encloses(g, i) /\ Available(i)) => Available(g)

\* The same for the options whose merged dependency has no ||.
C34_InheritedWithoutAlternative ==
    mode = "pyconfix" =>
        \A g \in Opts : \A i \in Opts :
            (options[g].parent = 0 /\ Encloses(g, i) /\ ~HasAlternative(i) /\ Available(i))
                => Available(g)

----------------------------------------------------------------------------
(* Claims about the saved mapping (checked under SpecEngines).             *)

\* save_config ran and wrote its data.
Saved == mode \in {"pyconfix", "library"} /\ last.op = "save" /\ last.err = ""

\* The data flatten_options_key_value produces from the current values.
SavedData ==
    IF mode = "pyconfix" THEN flatten_options_key_value(TopLevel, value).pairs
    ELSE pyconfig_flatten_options_key_value(TopLevel, value).pairs

\* The entry of a name in the data: the value of its last update.
EntryOf(name, pairs) ==
    IF \E k \in DOMAIN pairs : pairs[k].name = name
    THEN pairs[CHOOSE k \in DOMAIN pairs :
                  /\ pairs[k].name = name
                  /\ \A j \in DOMAIN pairs : pairs[j].name = name => j <= k].val
    ELSE PyNone

\* C35: in the mapping flatten_options_key_value produces for saving, the
\* entry of an option is non-null only if the option is available under the
\* current values and so is every group it is nested in, whatever value the
\* option holds.
C35_SavedOnlyIfAvailable ==
    Saved =>
        \A i \in Opts :
            (options[i].option_type # "group"
             /\ EntryOf(options[i].name, SavedData) # PyNone) =>
                /\ AvailableNow(i)
                /\ \A g \in Opts : Encloses(g, i) => AvailableNow(g)

\* C35 witness: the data was written while an option holding a value was
\* unavailable, or nested in an unavailable group, and while another option
\* had a non-null entry.
C35_Witness ==
    /\ Saved
    /\ \E i \in Opts :
          /\ options[i].option_type # "group"
          /\ value[i] # PyNone
          /\ (~AvailableNow(i) \/ \E g \in Opts : Encloses(g, i) /\ ~AvailableNow(g))
          /\ EntryOf(options[i].name, SavedData) = PyNone
    /\ \E j \in Opts : EntryOf(options[j].name, SavedData) # PyNone

----------------------------------------------------------------------------
(* Claims about loading a saved configuration in src/pyconfix.py (checked  *)
(* under SpecX).                                                           *)

\* apply_config_to_options has applied a saved mapping that changed a
\* value, and nothing has run since.
SavedApplied ==
    mode = "pyconfix" /\ last.op = "load" /\ last.err = "" /\ value # pre

\* C36: after a saved mapping is applied at load time, every non-group
\* option that is unavailable under the resulting values has the value
\* None (it does not retain its saved value), and every available one has
\* a value other than None.
C36_LoadedTreeConsistent ==
    SavedApplied =>
        \A i \in Opts : options[i].option_type # "group" =>
            (Available(i) <=> value[i] # PyNone)

----------------------------------------------------------------------------
(* Claims about the resolver of multiple_choice options (checked under     *)
(* SpecX): pyconfix.is_option_available's getter_function and the getter   *)
(* of OptionManager.is_option_available in src/pyconfig.py.                *)

\* What an identifier naming the multiple_choice option m stands for: the
\* label of the selected choice, or None while m is hidden.
SelectedLabel(m) ==
    IF value[m] = PyNone THEN PyNone
    ELSE PyStr(options[m].choices[value[m].n + 1])

\* C37: an identifier that names a multiple_choice option resolves to the
\* label of the currently selected choice, never to the stored index, and
\* to None when the option is hidden, in both resolvers.
C37_ResolverYieldsLabel ==
    mode = "pyconfix" =>
        \A m \in Opts : options[m].option_type = "multiple_choice" =>
            /\ getter_function(options[m].name, value) = SelectedLabel(m)
            /\ OptionManager_getter(OptionManager_find_option(options[m].name, << >>, 0),
                                    value) = SelectedLabel(m)

\* The same for the resolver of src/pyconfix.py alone.
C37_PyconfixResolverYieldsLabel ==
    mode = "pyconfix" =>
        \A m \in Opts : options[m].option_type = "multiple_choice" =>
            getter_function(options[m].name, value) = SelectedLabel(m)

----------------------------------------------------------------------------
(* Claims about the tokens shunting_yard emits (checked under SpecRaw).    *)

\* How often the token t occurs in a token list.
Occurrences(t, toks) == Cardinality({ k \in DOMAIN toks : toks[k] = t })

\* The postfix has exactly the tokens of the input other than parentheses,
\* each as often as the input has it.
SameTokens(infix, post) ==
    /\ \A t \in Range(infix) \ {tOpen, tClose} :
          Occurrences(t, post) = Occurrences(t, infix)
    /\ \A t \in Range(post) : t \in Range(infix) \ {tOpen, tClose}

\* The tokens shunting_yard has a branch for: operands, the operators of the
\* precedence table and parentheses.
KnownToken(t) ==
    is_operand_token(t) \/ t \in PrecedenceTokens \/ t \in {tOpen, tClose}

\* C38: for every token list tokenize produces whose parentheses are
\* properly nested, the postfix shunting_yard returns has exactly the
\* operand and operator tokens of the input, each as often as it occurs,
\* and no parenthesis; no token is dropped, '=', '&' and '|' included.
C38_PostfixKeepsTokens ==
    (mode = "expr" /\ Shunted) => SameTokens(tokens, postfix)

\* The same for the token lists made of operands, the nine operators of
\* the precedence table and parentheses.
C38_PostfixKeepsKnownTokens ==
    (mode = "expr" /\ Shunted /\ \A k \in DOMAIN tokens : KnownToken(tokens[k]))
        => SameTokens(tokens, postfix)
=============================================================================
